---- MODULE Spec2Model ----
(***************************************************************************)
(* Model of packages/mimir/native/src/embedded_milli/v1.rs: the embedded   *)
(* index adapter (storage-size probing, transactional document and         *)
(* settings operations, reads, dump/restore).                              *)
(*                                                                         *)
(* The storage engine (heed/LMDB) is modelled as a committed index value,  *)
(* one private working copy per write transaction (single writer) and one  *)
(* private snapshot per read transaction.  Every engine call that returns  *)
(* a Result may fail; a failing call is a nondeterministic choice.         *)
(***************************************************************************)
EXTENDS Integers, Sequences, FiniteSets, TLC

VARIABLES
    index,   \* the committed state of the index (what a fresh transaction sees)
    th,      \* per thread: the operation in progress and its local variables
    hist,    \* history: one record per committed write transaction, oldest first
    calls,   \* number of operations started so far (bounds the exploration)
    env      \* the environment handles open on the index directory

vars == <<index, th, hist, calls, env>>

----------------------------------------------------------------------------
(* Bounds of the exploration *)

MaxCalls == 2

Threads == {"t1", "t2"}

----------------------------------------------------------------------------
(* Option and Result values *)

None == <<>>
Some(x) == <<x>>

Ok(v) == [ok |-> TRUE, val |-> v]
Err(e) == [ok |-> FALSE, val |-> e]

EmptyFn == [x \in {} |-> x]

SeqRange(s) == {s[i] : i \in 1..Len(s)}

----------------------------------------------------------------------------
(* Documents: JSON objects, field name -> value *)

\* serde_json::Map iterates its keys in sorted order
FieldOrder == <<"id", "val">>

Doc1a == [id |-> "1", val |-> "a"]
Doc1b == [id |-> "1", val |-> "b"]
Doc2a == [id |-> "2", val |-> "a"]
Doc2b == [id |-> "2", val |-> "b"]
DocNoId == [val |-> "a"]

----------------------------------------------------------------------------
(* The fields-ids map and the obkv encoding of a record *)

HasField(map, name) == \E i \in 1..Len(map) : map[i] = name

FidOf(map, name) == CHOOSE i \in 1..Len(map) : map[i] = name

InsertField(map, name) == IF HasField(map, name) THEN map ELSE Append(map, name)

RECURSIVE InsertFields(_, _, _)
InsertFields(map, names, i) ==
    IF i > Len(FieldOrder) THEN map
    ELSE InsertFields(IF FieldOrder[i] \in names
                         THEN InsertField(map, FieldOrder[i]) ELSE map,
                      names, i + 1)

JsonToObkv(map, doc) ==
    [fid \in {FidOf(map, n) : n \in DOMAIN doc} |-> doc[map[fid]]]

all_obkv_to_json(obkv, map) ==
    IF \E fid \in DOMAIN obkv : fid \notin 1..Len(map)
    THEN Err("FieldIdMapMissingEntry")
    ELSE Ok([n \in {map[fid] : fid \in DOMAIN obkv} |-> obkv[FidOf(map, n)]])

----------------------------------------------------------------------------
(* Settings: the MimirIndexSettings value of the API and the facets the     *)
(* engine stores in the index                                               *)

\* the engine's defaults, read from an index no settings were ever written to
DefaultCriteria ==
    << [kind |-> "words", field |-> ""], [kind |-> "typo", field |-> ""],
       [kind |-> "proximity", field |-> ""], [kind |-> "attribute", field |-> ""],
       [kind |-> "sort", field |-> ""], [kind |-> "exactness", field |-> ""] >>

DefaultMinWordLenOneTypo == 5
DefaultMinWordLenTwoTypos == 9

DefaultMain ==
    [ primary_key |-> None,
      searchable_fields |-> None,
      filterable_fields |-> {},
      sortable_fields |-> {},
      criteria |-> DefaultCriteria,
      stop_words |-> None,
      synonyms |-> EmptyFn,
      authorize_typos |-> TRUE,
      min_word_len_one_typo |-> DefaultMinWordLenOneTypo,
      min_word_len_two_typos |-> DefaultMinWordLenTwoTypos,
      exact_words |-> None,
      exact_attributes |-> {} ]

\* the names milli::Criterion::from_str accepts as plain ranking rules
CriterionNames == {"words", "typo", "proximity", "attribute", "sort", "exactness"}

\* milli::Criterion::from_str: a plain name, else "<field>:asc" / "<field>:desc"
\* (parsed by AscDesc::from_str), else an error
CriterionFromStr(s) ==
    CASE s \in CriterionNames -> Ok([kind |-> s, field |-> ""])
      [] s = "price:asc" -> Ok([kind |-> "asc", field |-> "price"])
      [] s = "price:desc" -> Ok([kind |-> "desc", field |-> "price"])
      [] OTHER -> Err("InvalidCriterionName")

\* get_settings: Criterion -> name; Asc and Desc map to "" and are filtered out
CriterionName(c) == IF c.kind \in CriterionNames THEN c.kind ELSE ""

RECURSIVE FilterNonEmpty(_)
FilterNonEmpty(names) ==
    IF names = <<>> THEN <<>>
    ELSE IF Head(names) = "" THEN FilterNonEmpty(Tail(names))
         ELSE <<Head(names)>> \o FilterNonEmpty(Tail(names))

\* the engine's tokenizer applied to a synonym entry: its words, in order
Tokenize(w) ==
    CASE w = "new york" -> <<"new", "york">>
      [] w = "new jersey" -> <<"new", "jersey">>
      [] OTHER -> <<w>>

\* ranking_rules.iter().map(Criterion::from_str).collect::<Result<_>>():
\* the first error, else the parsed list
RECURSIVE ParseCriteria(_)
ParseCriteria(names) ==
    IF names = <<>> THEN Ok(<<>>)
    ELSE LET h == CriterionFromStr(Head(names))
             t == ParseCriteria(Tail(names))
         IN  IF ~h.ok THEN h
             ELSE IF ~t.ok THEN t
             ELSE Ok(<<h.val>> \o t.val)

\* synonyms.into_iter().map(|s| (s.word, s.synonyms)).collect::<HashMap>():
\* a later entry for the same word replaces an earlier one
SynonymsMap(syns) ==
    [w \in {syns[i].word : i \in 1..Len(syns)} |->
        LET last == CHOOSE i \in 1..Len(syns) :
                        /\ syns[i].word = w
                        /\ \A j \in (i+1)..Len(syns) : syns[j].word # w
        IN  syns[last].synonyms]

\* update::Settings after the calls of set_settings (lines 380-404), given the
\* parsed criteria: every facet is either set or reset
SettingsBuilder(s, criteria) ==
    [ primary_key |-> s.primary_key,              \* Some: set, None: reset
      searchable_fields |-> s.searchable_fields,  \* Some: set, None: reset
      filterable_fields |-> SeqRange(s.filterable_fields),
      sortable_fields |-> SeqRange(s.sortable_fields),
      criteria |-> criteria,
      stop_words |-> SeqRange(s.stop_words),
      synonyms |-> SynonymsMap(s.synonyms),
      authorize_typos |-> s.typos_enabled,
      min_word_len_one_typo |-> s.min_word_size_for_one_typo,
      min_word_len_two_typos |-> s.min_word_size_for_two_typos,
      exact_words |-> SeqRange(s.disallow_typos_on_words),
      exact_attributes |-> SeqRange(s.disallow_typos_on_fields) ]

\* the synonyms the engine stores: word and synonyms tokenized, the synonyms of
\* entries with the same tokenized word merged, sorted and deduplicated
StoredSynonyms(m) ==
    [k \in {Tokenize(w) : w \in DOMAIN m} |->
        UNION {{Tokenize(x) : x \in SeqRange(m[w])} : w \in {v \in DOMAIN m : Tokenize(v) = k}}]

----------------------------------------------------------------------------
(* Storage-size probing: the arithmetic of create_index lines 44-46          *)

\* the constants of the parent module (super::), which this file only imports
MAX_POSSIBLE_SIZE == 2000000000
MAX_OS_PAGE_SIZE == 16384
MAP_SIZE_TRIES == 8
\* 0.85 as an f32: mantissa * 2^exponent
MAP_EXP_BACKOFF_AMOUNT == [m |-> 14260634, e |-> -24]

\* f32 values are [m, e], 2^23 <= m < 2^24, standing for m * 2^e
F32One == [m |-> 8388608, e |-> -23]

\* round to nearest, ties to even: quotient q, remainder rem of a division by 2*half
RoundHalfEven(q, rem, half) ==
    IF rem > half \/ (rem = half /\ q % 2 = 1) THEN q + 1 ELSE q

F32Normal(q, e) == IF q = 16777216 THEN [m |-> 8388608, e |-> e + 1] ELSE [m |-> q, e |-> e]

\* the number of binary digits of n > 0
RECURSIVE BitLen(_)
BitLen(n) == IF n = 0 THEN 0 ELSE 1 + BitLen(n \div 2)

\* `n as f32` for an integer n > 0
F32FromInt(n) ==
    LET b == BitLen(n)
    IN  IF b <= 24 THEN [m |-> n * 2^(24 - b), e |-> b - 24]
        ELSE LET sh == b - 24
             IN  F32Normal(RoundHalfEven(n \div 2^sh, n % 2^sh, 2^(sh - 1)), sh)

\* a * b in f32: the 48-bit product of the mantissas, computed in 12-bit limbs,
\* rounded to 24 bits
F32Mul(a, b) ==
    LET h1 == a.m \div 4096   l1 == a.m % 4096
        h2 == b.m \div 4096   l2 == b.m % 4096
        cross == h1 * l2 + l1 * h2
        loRaw == (cross % 4096) * 4096 + l1 * l2
        hi == h1 * h2 + cross \div 4096 + loRaw \div 16777216
        lo == loRaw % 16777216
    IN  IF hi >= 8388608
        THEN F32Normal(RoundHalfEven(hi, lo, 8388608), a.e + b.e + 24)
        ELSE F32Normal(RoundHalfEven(2 * hi + lo \div 8388608, lo % 8388608, 4194304),
                       a.e + b.e + 23)

\* f32::powi(n), n >= 0, by repeated squaring (compiler-rt's __powisf2)
RECURSIVE PowiLoop(_, _, _)
PowiLoop(r, a, n) ==
    LET r1 == IF n % 2 = 1 THEN F32Mul(r, a) ELSE r
    IN  IF n \div 2 = 0 THEN r1 ELSE PowiLoop(r1, F32Mul(a, a), n \div 2)

powi(a, n) == PowiLoop(F32One, a, n)

\* `x as usize`: the integer part
F32ToUsize(x) == IF x.e >= 0 THEN x.m * 2^x.e ELSE x.m \div 2^(-x.e)

\* line 44-45
CurrMaxMapSize(retry) ==
    F32ToUsize(F32Mul(F32FromInt(MAX_POSSIBLE_SIZE), powi(MAP_EXP_BACKOFF_AMOUNT, retry)))

\* mutant: the size is not rounded down to a page multiple
MapSize_Unaligned(retry) == CurrMaxMapSize(retry)

\* line 46: the largest multiple of MAX_OS_PAGE_SIZE not above curr_max_map_size
MapSize(retry) ==
    CurrMaxMapSize(retry) - (CurrMaxMapSize(retry) % MAX_OS_PAGE_SIZE)

\* mutant: the loop retries without a bound
RetryAllowed_Unbounded(retry) == TRUE

\* line 53: `Err(_) if retry < MAP_SIZE_TRIES`
RetryAllowed(retry) == retry < MAP_SIZE_TRIES

----------------------------------------------------------------------------
(* The index: the engine's databases, as one value per committed version    *)

EmptyIndex ==
    [ main |-> DefaultMain,          \* settings facets
      fields_ids_map |-> <<>>,       \* field id (position) -> field name
      external_ids |-> EmptyFn,      \* external identifier -> internal identifier
      documents |-> EmptyFn ]        \* internal identifier -> obkv record

number_of_documents(db) == Cardinality(DOMAIN db.documents)

\* the smallest internal identifier not in use
AvailableDocumentId(db) ==
    CHOOSE i \in 0..Cardinality(DOMAIN db.documents) :
        /\ i \notin DOMAIN db.documents
        /\ \A j \in 0..(i-1) : j \in DOMAIN db.documents

\* mutant: the clear wipes the whole index, settings included
ClearDocuments_WipesSettings(db) == EmptyIndex

\* update::ClearDocuments::execute: documents and identifier map emptied, the
\* settings and the fields-ids map kept
ClearDocuments(db) ==
    [db EXCEPT !.external_ids = EmptyFn, !.documents = EmptyFn]

\* the primary key a batch is indexed under: the index's, else the one the engine
\* infers from the first document (a field whose name ends in "id")
BatchPrimaryKey(db, batch) ==
    IF db.main.primary_key # None THEN db.main.primary_key
    ELSE IF batch # <<>> /\ "id" \in DOMAIN batch[1] THEN Some("id")
    ELSE None

\* IndexDocuments::add_documents, the inner result: the user-data error of the
\* batch, if any
BatchUserError(db, batch) ==
    IF batch = <<>> THEN None
    ELSE IF BatchPrimaryKey(db, batch) = None THEN Some("NoPrimaryKeyCandidateFound")
    ELSE IF \E i \in 1..Len(batch) : BatchPrimaryKey(db, batch)[1] \notin DOMAIN batch[i]
         THEN Some("MissingDocumentId")
    ELSE None

\* mutant: a document whose identifier the index already holds is not replaced
IndexOne_KeepsOld(db, pk, doc) ==
    IF doc[pk] \in DOMAIN db.external_ids THEN db
    ELSE LET map == InsertFields(db.fields_ids_map, DOMAIN doc, 1)
             iid == AvailableDocumentId(db)
         IN  [db EXCEPT !.fields_ids_map = map,
                        !.external_ids = (doc[pk] :> iid) @@ db.external_ids,
                        !.documents = (iid :> JsonToObkv(map, doc)) @@ db.documents]

\* one document written under primary key pk (update method: replace)
IndexOne(db, pk, doc) ==
    LET map == InsertFields(db.fields_ids_map, DOMAIN doc, 1)
        ext == doc[pk]
        iid == IF ext \in DOMAIN db.external_ids
               THEN db.external_ids[ext] ELSE AvailableDocumentId(db)
    IN  [db EXCEPT !.fields_ids_map = map,
                   !.external_ids = (ext :> iid) @@ db.external_ids,
                   !.documents = (iid :> JsonToObkv(map, doc)) @@ db.documents]

RECURSIVE IndexAll(_, _, _)
IndexAll(db, pk, batch) ==
    IF batch = <<>> THEN db
    ELSE IndexAll(IndexOne(db, pk, Head(batch)), pk, Tail(batch))

\* IndexDocuments::execute for an accepted batch
IndexDocuments(db, batch) ==
    IF batch = <<>> THEN db
    ELSE LET pk == BatchPrimaryKey(db, batch)
             withPk == [db EXCEPT !.main.primary_key = pk,
                                  !.fields_ids_map = InsertField(db.fields_ids_map, pk[1])]
         IN  IndexAll(withPk, pk[1], batch)

\* mutant: the identifiers are unmapped but their records stay in the store
DeleteDocuments_KeepsRecords(db, ids) ==
    [db EXCEPT !.external_ids =
                  [e \in DOMAIN db.external_ids \ SeqRange(ids) |-> db.external_ids[e]]]

\* DeleteDocuments: delete_external_id for each identifier, then execute;
\* an identifier the map does not hold is skipped
DeleteDocuments(db, ids) ==
    LET gone == SeqRange(ids) \cap DOMAIN db.external_ids
        iids == {db.external_ids[e] : e \in gone}
    IN  [db EXCEPT
           !.external_ids = [e \in DOMAIN db.external_ids \ gone |-> db.external_ids[e]],
           !.documents = [i \in DOMAIN db.documents \ iids |-> db.documents[i]]]

\* update::Settings::execute refuses to set or reset the primary key of an index
\* that holds documents
SettingsUserError(db, b) ==
    IF number_of_documents(db) # 0 /\ b.primary_key # db.main.primary_key
    THEN Some("PrimaryKeyCannotBeChanged")
    ELSE None

\* update::Settings::execute: every facet of the builder written to the index
ExecuteSettings(db, b) ==
    [db EXCEPT
       !.main = [ primary_key |-> b.primary_key,
                  searchable_fields |-> b.searchable_fields,
                  filterable_fields |-> b.filterable_fields,
                  sortable_fields |-> b.sortable_fields,
                  criteria |-> b.criteria,
                  stop_words |-> IF b.stop_words = {} THEN None ELSE Some(b.stop_words),
                  synonyms |-> StoredSynonyms(b.synonyms),
                  authorize_typos |-> b.authorize_typos,
                  min_word_len_one_typo |-> b.min_word_len_one_typo,
                  min_word_len_two_typos |-> b.min_word_len_two_typos,
                  exact_words |-> Some(b.exact_words),
                  exact_attributes |-> b.exact_attributes ],
       !.fields_ids_map = IF b.primary_key = None THEN @
                          ELSE InsertField(@, b.primary_key[1])]

----------------------------------------------------------------------------
(* Reads, each against the snapshot of one read transaction                 *)

\* some enumeration of a finite set (the iteration order of a hash collection)
SetToSeq(S) ==
    CHOOSE s \in [1..Cardinality(S) -> S] : \A i, j \in DOMAIN s : i # j => s[i] # s[j]

\* internal identifiers in increasing order (the storage order of the records)
RECURSIVE SortedIds(_)
SortedIds(S) ==
    IF S = {} THEN <<>>
    ELSE LET m == CHOOSE x \in S : \A y \in S : x <= y
         IN  <<m>> \o SortedIds(S \ {m})

\* .map(all_obkv_to_json).collect::<Result<Vec<_>>>(): the first error, else all
RECURSIVE CollectJson(_, _)
CollectJson(obkvs, map) ==
    IF obkvs = <<>> THEN Ok(<<>>)
    ELSE LET h == all_obkv_to_json(Head(obkvs), map)
             t == CollectJson(Tail(obkvs), map)
         IN  IF ~h.ok THEN h
             ELSE IF ~t.ok THEN t
             ELSE Ok(<<h.val>> \o t.val)

\* Index::documents(rtxn, ids): the records of the identifiers, in order; an
\* identifier without a record is an error
IndexDocumentsOf(db, iids) ==
    IF \E i \in 1..Len(iids) : iids[i] \notin DOMAIN db.documents
    THEN Err("UnknownInternalDocumentId")
    ELSE Ok([i \in 1..Len(iids) |-> db.documents[iids[i]]])

get_all_documents(db) ==
    LET iids == SortedIds(DOMAIN db.documents)
    IN  CollectJson([i \in 1..Len(iids) |-> db.documents[iids[i]]], db.fields_ids_map)

\* mutant: an identifier whose record is missing reads as not found
get_document_MissingIsNone(db, document_id) ==
    IF document_id \notin DOMAIN db.external_ids THEN Ok(None)
    ELSE IF db.external_ids[document_id] \notin DOMAIN db.documents THEN Ok(None)
    ELSE LET json == all_obkv_to_json(db.documents[db.external_ids[document_id]],
                                      db.fields_ids_map)
         IN  IF json.ok THEN Ok(Some(json.val)) ELSE json

get_document(db, document_id) ==
    IF document_id \notin DOMAIN db.external_ids THEN Ok(None)
    ELSE LET documents == IndexDocumentsOf(db, <<db.external_ids[document_id]>>)
         IN  IF ~documents.ok THEN documents
             ELSE IF documents.val = <<>> THEN Err("Missing document")
             ELSE LET json == all_obkv_to_json(documents.val[1], db.fields_ids_map)
                  IN  IF json.ok THEN Ok(Some(json.val)) ELSE json

\* Search::execute for a filter Equal{field: "val", value: q}: the internal
\* identifiers of the matching records of the snapshot, in storage order
SearchExecute(db, q) ==
    SortedIds({i \in DOMAIN db.documents :
                 /\ HasField(db.fields_ids_map, "val")
                 /\ FidOf(db.fields_ids_map, "val") \in DOMAIN db.documents[i]
                 /\ db.documents[i][FidOf(db.fields_ids_map, "val")] = q})

\* search_documents lines 281-288 with the identifiers found in searchDb, the
\* fields-ids map of mapDb and the records of docDb
SearchFetch(docDb, mapDb, documents_ids) ==
    LET documents == IndexDocumentsOf(docDb, documents_ids)
    IN  IF ~documents.ok THEN documents
        ELSE CollectJson(documents.val, mapDb.fields_ids_map)

\* .iter().flat_map(|v| v.iter()): the concatenation of the lists
RECURSIVE Flatten(_)
Flatten(ss) == IF ss = <<>> THEN <<>> ELSE Head(ss) \o Flatten(Tail(ss))

get_settings(db) ==
    LET m == db.main
        words == SetToSeq(DOMAIN m.synonyms)
    IN  Ok([ primary_key |-> m.primary_key,
             searchable_fields |-> m.searchable_fields,
             filterable_fields |-> SetToSeq(m.filterable_fields),
             sortable_fields |-> SetToSeq(m.sortable_fields),
             ranking_rules |->
                 FilterNonEmpty([i \in 1..Len(m.criteria) |-> CriterionName(m.criteria[i])]),
             stop_words |-> IF m.stop_words = None THEN <<>> ELSE SetToSeq(m.stop_words[1]),
             synonyms |->
                 [i \in 1..Len(words) |->
                    [ word |-> words[i][1],
                      synonyms |-> Flatten(SetToSeq(m.synonyms[words[i]])) ]],
             typos_enabled |-> m.authorize_typos,
             min_word_size_for_one_typo |-> m.min_word_len_one_typo,
             min_word_size_for_two_typos |-> m.min_word_len_two_typos,
             disallow_typos_on_words |->
                 IF m.exact_words = None THEN <<>> ELSE SetToSeq(m.exact_words[1]),
             disallow_typos_on_fields |-> SetToSeq(m.exact_attributes) ])

----------------------------------------------------------------------------
(* Threads: each runs one operation at a time, one step per engine call     *)

Idle ==
    [ op |-> "idle", pc |-> "idle",
      arg |-> <<>>,       \* the operation's argument
      wtxn |-> None,      \* Some(working copy) while a write transaction is open
      rtxn |-> None,      \* Some(snapshot) while a read transaction is open
      loc |-> <<>>,       \* a local: the inner indexing result, the settings builder,
                          \* the identifiers found by the search
      res |-> None,       \* Some(result) once the operation has returned
      begun |-> 0,        \* history: Len(hist) when the operation was called
      ver |-> 0,          \* history: Len(hist) when the transaction was opened
      conc |-> None,      \* history: the write transaction open at that moment, if any
      end |-> 0,          \* history: Len(hist) when the operation returned
      steps |-> <<>>,     \* history: the engine calls that succeeded in this call
      outer |-> "",       \* the dump operation this call is made from, if any
      out |-> <<>>,       \* the locals of that dump operation
      osteps |-> <<>>,    \* history: the steps the dump operation has completed
      probes |-> <<>> ]   \* history: the open attempts of the running create_index

DumpOps == {"create_dump", "import_dump"}

WriteOps == {"add_documents", "set_documents", "delete_documents",
             "delete_all_documents", "set_settings"}

FirstPc(op) ==
    CASE op = "add_documents" -> "serialize"
      [] op = "create_index" -> "create_dir_all"
      [] op = "fancy_search" -> "filter"
      [] op \in WriteOps -> "write_txn"
      [] OTHER -> "read_txn"

\* the step after `pc` in the body of `op`
NextPc(op, pc) ==
    CASE op = "add_documents" /\ pc = "serialize" -> "write_txn"
      [] op = "add_documents" /\ pc = "write_txn" -> "add"
      [] op = "set_documents" /\ pc = "write_txn" -> "clear"
      [] op = "set_documents" /\ pc = "clear" -> "serialize"
      [] op = "set_documents" /\ pc = "serialize" -> "add"
      [] pc = "add" -> "check"
      [] pc = "check" -> "execute"
      [] pc = "execute" -> "commit"
      [] op = "delete_documents" /\ pc = "write_txn" -> "delete_new"
      [] pc = "delete_new" -> "delete_execute"
      [] pc = "delete_execute" -> "commit"
      [] op = "delete_all_documents" /\ pc = "write_txn" -> "clear"
      [] op = "delete_all_documents" /\ pc = "clear" -> "commit"
      [] op = "set_settings" /\ pc = "write_txn" -> "build"
      [] pc = "build" -> "settings_execute"
      [] pc = "settings_execute" -> "commit"
      [] op = "get_all_documents" /\ pc = "read_txn" -> "read_all"
      [] op = "number_of_documents" /\ pc = "read_txn" -> "count"
      [] op = "get_settings" /\ pc = "read_txn" -> "read_settings"
      [] op = "get_document" /\ pc = "read_txn" -> "lookup"
      [] op = "search_documents" /\ pc = "read_txn" -> "search"
      [] pc = "search" -> "fetch"
      [] pc = "filter" -> "perform_search"
      [] pc = "create_dir_all" -> "probe"
      [] pc = "probe" -> "release"
      [] pc = "release" -> "open"
      [] OTHER -> "done"

\* mutant: the write transaction is kept past the return
Return_KeepsTxn(t, r) ==
    th' = [th EXCEPT ![t].pc = "done", ![t].res = Some(r), ![t].end = Len(hist'),
                     ![t].steps = IF r.ok THEN Append(@, th[t].pc) ELSE @]

\* the thread's fields once its operation has returned r: its transactions are
\* dropped (an uncommitted write transaction aborts on drop)
Done(f, r, end) ==
    [f EXCEPT !.pc = "done", !.res = Some(r), !.wtxn = None, !.rtxn = None, !.end = end,
              !.steps = IF r.ok THEN Append(@, f.pc) ELSE @]

\* a dump operation calls `op`, after the call it made before returned Ok
Call(f, op, arg) ==
    [f EXCEPT !.op = op, !.pc = FirstPc(op), !.arg = arg, !.loc = <<>>,
              !.wtxn = None, !.rtxn = None, !.steps = <<>>, !.probes = <<>>,
              !.osteps = Append(@, f.op)]

\* the closure of a dump operation is over with `status`: on to line 420 / 434
ToClose(f, status) ==
    [f EXCEPT !.op = f.outer, !.outer = "", !.pc = "close_wait", !.arg = <<>>,
              !.loc = <<>>, !.wtxn = None, !.rtxn = None,
              !.out = [@ EXCEPT !.status = Some(status)]]

\* `Self::create_index(dir)?` of a dump operation failed: the dump operation
\* returns the error (lines 412, 426)
OuterDone(f, r, end) ==
    [Done(f, r, end) EXCEPT !.op = f.outer, !.outer = ""]

\* mutant: `?` inside a dump operation returns from the operation itself
InnerFailed_ReturnsAtOnce(f, r, end) == OuterDone(f, r, end)

\* `?` inside the closure of a dump operation (lines 414-418, 428-432): the
\* closure returns the error, the operation goes on to close the environment
InnerFailed(f, r, end) == ToClose(f, r)

\* mutant: import_dump goes on to set_documents when set_settings has failed
Resume_ImportsRegardless(f, r, end) ==
    CASE f.op = "create_index" /\ ~r.ok -> OuterDone(f, r, end)
      [] f.op = "create_index" /\ r.ok /\ f.outer = "create_dump" ->
            Call(f, "get_settings", <<>>)
      [] f.op = "create_index" /\ r.ok /\ f.outer = "import_dump" ->
            Call(f, "set_settings", f.out.dump[1])
      [] f.op \notin {"create_index", "set_settings"} /\ ~r.ok -> InnerFailed(f, r, end)
      [] f.op = "get_settings" /\ r.ok ->
            Call([f EXCEPT !.out = [@ EXCEPT !.settings = Some(r.val)]],
                 "get_all_documents", <<>>)
      [] f.op = "get_all_documents" /\ r.ok ->
            ToClose(f, Ok(<<f.out.settings[1], r.val>>))
      [] f.op = "set_settings" -> Call(f, "set_documents", f.out.dump[2])
      [] f.op = "set_documents" /\ r.ok -> ToClose(f, Ok("unit"))

\* a call made by a dump operation has returned r: the rest of the operation
Resume(f, r, end) ==
    CASE f.op = "create_index" /\ ~r.ok -> OuterDone(f, r, end)
      [] f.op = "create_index" /\ r.ok /\ f.outer = "create_dump" ->
            Call(f, "get_settings", <<>>)
      [] f.op = "create_index" /\ r.ok /\ f.outer = "import_dump" ->
            Call(f, "set_settings", f.out.dump[1])
      [] f.op # "create_index" /\ ~r.ok -> InnerFailed(f, r, end)
      [] f.op = "get_settings" /\ r.ok ->
            Call([f EXCEPT !.out = [@ EXCEPT !.settings = Some(r.val)]],
                 "get_all_documents", <<>>)
      [] f.op = "get_all_documents" /\ r.ok ->
            ToClose(f, Ok(<<f.out.settings[1], r.val>>))
      [] f.op = "set_settings" /\ r.ok -> Call(f, "set_documents", f.out.dump[2])
      [] f.op = "set_documents" /\ r.ok -> ToClose(f, Ok("unit"))

\* the call of thread t, its fields being f, returns r: to the caller of the
\* API, or to the dump operation that made the call
ReturnWith(t, f, r) ==
    th' = [th EXCEPT ![t] = IF f.outer = "" THEN Done(f, r, Len(hist'))
                            ELSE Resume(f, r, Len(hist'))]

Return(t, r) == ReturnWith(t, th[t], r)

\* mutant: the error path commits what the transaction holds so far
Fail_CommitsPartial(t, e) ==
    /\ index' = IF th[t].wtxn # None THEN th[t].wtxn[1] ELSE index
    /\ UNCHANGED <<hist, calls, env>>
    /\ Return(t, Err(e))

\* `?` on an Err: the operation returns the error
Fail(t, e) == UNCHANGED <<index, hist, calls, env>> /\ Return(t, Err(e))

\* the engine call at `pc` succeeded: move on with the thread's fields changed
Advance(t, changed) ==
    th' = [th EXCEPT ![t] = [changed EXCEPT !.pc = NextPc(th[t].op, th[t].pc),
                                            !.steps = Append(th[t].steps, th[t].pc)]]

Begin(t, op, arg) ==
    /\ th[t].pc \in {"idle", "done"}
    /\ calls < MaxCalls
    /\ calls' = calls + 1
    /\ th' = [th EXCEPT ![t] = [Idle EXCEPT !.op = op, !.pc = FirstPc(op), !.arg = arg,
                                            !.begun = Len(hist)]]
    /\ UNCHANGED <<index, hist, env>>

\* create_index is called on a directory that no environment of this process
\* has open, and by one caller at a time
DirectoryFree == env.real = None /\ \A u \in Threads : th[u].pc \in {"idle", "done"}

\* a dump operation starts: its first call is create_index (lines 412, 426)
BeginOuter(t, outer, dump) ==
    /\ DirectoryFree
    /\ calls < MaxCalls
    /\ calls' = calls + 1
    /\ th' = [th EXCEPT ![t] =
                 [Idle EXCEPT !.op = "create_index", !.pc = FirstPc("create_index"),
                              !.outer = outer, !.begun = Len(hist),
                              !.out = [dump |-> dump, settings |-> None, status |-> None]]]
    /\ UNCHANGED <<index, hist, env>>

----------------------------------------------------------------------------
(* create_index, step by step                                               *)

\* the error of the open attempt made after `retry` retries
OpenError(retry) ==
    IF retry < 10
    THEN <<"open failed (1)", "open failed (2)", "open failed (3)", "open failed (4)",
           "open failed (5)", "open failed (6)", "open failed (7)", "open failed (8)",
           "open failed (9)", "open failed (10)">>[retry + 1]
    ELSE "open failed (later)"

\* std::fs::create_dir_all(dir)?
CreateDir(t) ==
    /\ th[t].pc = "create_dir_all"
    /\ \/ /\ Advance(t, [th[t] EXCEPT !.loc = [retry |-> 0]])
          /\ UNCHANGED <<index, hist, calls, env>>
       \/ Fail(t, "create_dir_all")

\* one turn of the loop (lines 42-61): the size of this attempt, the open, and
\* what the match does with its result
Probe(t) ==
    /\ th[t].pc = "probe"
    /\ LET retry == th[t].loc.retry
           map_size == MapSize(retry)
           tried(result) == Append(th[t].probes, [size |-> map_size, result |-> result])
       IN  \/ /\ env' = [env EXCEPT !.probe = Some(map_size)]
              /\ Advance(t, [th[t] EXCEPT !.loc = [retry |-> retry, map_size |-> map_size],
                                           !.probes = tried(Ok("env"))])
              /\ UNCHANGED <<index, hist, calls>>
           \/ /\ UNCHANGED <<index, hist, calls, env>>
              /\ IF RetryAllowed(retry)
                 THEN th' = [th EXCEPT ![t].loc = [retry |-> retry + 1],
                                       ![t].probes = tried(Err(OpenError(retry)))]
                 ELSE ReturnWith(t, [th[t] EXCEPT !.probes = tried(Err(OpenError(retry)))],
                                 Err(OpenError(retry)))

\* mutant: the loop is left with the probe's handle still open
Release_KeepsProbe(t) ==
    /\ th[t].pc = "release"
    /\ Advance(t, th[t])
    /\ UNCHANGED <<index, hist, calls, env>>

\* env.prepare_for_closing(); break
Release(t) ==
    /\ th[t].pc = "release"
    /\ env' = [env EXCEPT !.probe = None]
    /\ Advance(t, th[t])
    /\ UNCHANGED <<index, hist, calls>>

\* Index::new(options, dir) with options.map_size(map_size)
OpenReal(t) ==
    /\ th[t].pc = "open"
    /\ \/ /\ env' = [env EXCEPT !.real = Some(th[t].loc.map_size)]
          /\ UNCHANGED <<index, hist, calls>>
          /\ Return(t, Ok("index"))
       \/ Fail(t, "index_new")

\* index.prepare_for_closing().wait(), then the status of the closure is
\* returned (lines 420-421, 434-435)
CloseWait(t) ==
    /\ th[t].pc = "close_wait"
    /\ env' = [env EXCEPT !.real = None]
    /\ UNCHANGED <<index, hist, calls>>
    /\ th' = [th EXCEPT ![t] = [Done(th[t], th[t].out.status[1], Len(hist))
                                  EXCEPT !.osteps = Append(@, "close_wait")]]

----------------------------------------------------------------------------
(* Write operations, step by step                                           *)

\* mutant: write transactions do not exclude each other
WriterLockFree_NoLock(t) == TRUE

\* heed's write_txn blocks while another write transaction of the environment
\* is open (LMDB's writer mutex)
WriterLockFree(t) == \A u \in Threads : th[u].wtxn = None

\* index.write_txn()?
WriteTxn(t) ==
    /\ th[t].pc = "write_txn"
    /\ \/ /\ WriterLockFree(t)
          /\ Advance(t, [th[t] EXCEPT !.wtxn = Some(index), !.ver = Len(hist)])
          /\ UNCHANGED <<index, hist, calls, env>>
       \/ Fail(t, "write_txn")

\* DocumentsBatchBuilder: append_json_object(&doc)? for each document,
\* into_inner()?, DocumentsBatchReader::from_reader(..)?
Serialize(t) ==
    /\ th[t].pc = "serialize"
    /\ \/ Advance(t, th[t]) /\ UNCHANGED <<index, hist, calls, env>>
       \/ Fail(t, "serialize")

\* mutant: the clear runs and commits in a transaction of its own
Clear_CommitsOnItsOwn(t) ==
    /\ th[t].pc = "clear"
    /\ index' = ClearDocuments(th[t].wtxn[1])
    /\ hist' = Append(hist, [op |-> th[t].op, arg |-> th[t].arg,
                             pre |-> index, post |-> index'])
    /\ Advance(t, [th[t] EXCEPT !.wtxn = Some(index'), !.ver = Len(hist')])
    /\ UNCHANGED <<calls, env>>

\* update::ClearDocuments::new(&mut wtxn, index).execute()?
Clear(t) ==
    /\ th[t].pc = "clear"
    /\ \/ /\ Advance(t, [th[t] EXCEPT !.wtxn = Some(ClearDocuments(th[t].wtxn[1]))])
          /\ UNCHANGED <<index, hist, calls, env>>
       \/ Fail(t, "clear")

\* update::IndexDocuments::new(..)?.add_documents(reader)?: the outer result;
\* the inner result is kept in indexing_result
AddBatch(t) ==
    /\ th[t].pc = "add"
    /\ \/ /\ Advance(t, [th[t] EXCEPT !.loc = BatchUserError(th[t].wtxn[1], th[t].arg)])
          /\ UNCHANGED <<index, hist, calls, env>>
       \/ Fail(t, "add_documents")

\* mutant: the inner result is dropped unchecked
CheckInner_Unchecked(t) ==
    /\ th[t].pc = "check"
    /\ Advance(t, th[t])
    /\ UNCHANGED <<index, hist, calls, env>>

\* indexing_result?
CheckInner(t) ==
    /\ th[t].pc = "check"
    /\ IF th[t].loc # None
       THEN Fail(t, th[t].loc[1])
       ELSE Advance(t, th[t]) /\ UNCHANGED <<index, hist, calls, env>>

\* builder.execute()?  (a builder whose batch was refused holds no documents)
Execute(t) ==
    /\ th[t].pc = "execute"
    /\ \/ /\ Advance(t, [th[t] EXCEPT !.wtxn =
                 IF th[t].loc # None THEN @
                 ELSE Some(IndexDocuments(th[t].wtxn[1], th[t].arg))])
          /\ UNCHANGED <<index, hist, calls, env>>
       \/ Fail(t, "execute")

\* update::DeleteDocuments::new(&mut wtxn, index)? and the delete_external_id loop
DeleteNew(t) ==
    /\ th[t].pc = "delete_new"
    /\ \/ Advance(t, [th[t] EXCEPT !.loc = th[t].arg]) /\ UNCHANGED <<index, hist, calls, env>>
       \/ Fail(t, "delete_new")

\* builder.execute()? of delete_documents
DeleteExecute(t) ==
    /\ th[t].pc = "delete_execute"
    /\ \/ /\ Advance(t, [th[t] EXCEPT !.wtxn = Some(DeleteDocuments(th[t].wtxn[1], th[t].loc))])
          /\ UNCHANGED <<index, hist, calls, env>>
       \/ Fail(t, "execute")

\* set_settings lines 377-404: the builder is filled; the ranking rules are
\* parsed on the way and the first bad name returns
Build(t) ==
    /\ th[t].pc = "build"
    /\ LET criteria == ParseCriteria(th[t].arg.ranking_rules)
       IN  IF ~criteria.ok
           THEN Fail(t, criteria.val)
           ELSE /\ Advance(t, [th[t] EXCEPT !.loc = SettingsBuilder(th[t].arg, criteria.val)])
                /\ UNCHANGED <<index, hist, calls, env>>

\* builder.execute(|_| {}, || false)?
SettingsExecute(t) ==
    /\ th[t].pc = "settings_execute"
    /\ IF SettingsUserError(th[t].wtxn[1], th[t].loc) # None
       THEN Fail(t, SettingsUserError(th[t].wtxn[1], th[t].loc)[1])
       ELSE \/ /\ Advance(t, [th[t] EXCEPT !.wtxn = Some(ExecuteSettings(th[t].wtxn[1], th[t].loc))])
               /\ UNCHANGED <<index, hist, calls, env>>
            \/ Fail(t, "execute")

\* wtxn.commit(): the working copy becomes the committed state, or the commit
\* fails and nothing is written
Commit(t) ==
    /\ th[t].pc = "commit"
    /\ \/ /\ index' = th[t].wtxn[1]
          /\ hist' = Append(hist, [op |-> th[t].op, arg |-> th[t].arg,
                                   pre |-> index, post |-> th[t].wtxn[1]])
          /\ UNCHANGED <<calls, env>>
          /\ Return(t, Ok("unit"))
       \/ Fail(t, "commit")

----------------------------------------------------------------------------
(* Read operations                                                          *)

\* the write transaction open right now: Some([op, steps]) of its thread
OpenWriteTxn ==
    IF \A u \in Threads : th[u].wtxn = None THEN None
    ELSE LET u == CHOOSE u \in Threads : th[u].wtxn # None
         IN  Some([op |-> th[u].op, steps |-> th[u].steps])

\* index.read_txn()?: the snapshot is the state committed at this moment
ReadTxn(t) ==
    /\ th[t].pc = "read_txn"
    /\ \/ /\ Advance(t, [th[t] EXCEPT !.rtxn = Some(index), !.ver = Len(hist),
                                      !.conc = OpenWriteTxn])
          /\ UNCHANGED <<index, hist, calls, env>>
       \/ Fail(t, "read_txn")

ReadAll(t) ==
    /\ th[t].pc = "read_all"
    /\ \/ UNCHANGED <<index, hist, calls, env>> /\ Return(t, get_all_documents(th[t].rtxn[1]))
       \/ Fail(t, "read")

Count(t) ==
    /\ th[t].pc = "count"
    /\ \/ UNCHANGED <<index, hist, calls, env>> /\ Return(t, Ok(number_of_documents(th[t].rtxn[1])))
       \/ Fail(t, "read")

ReadSettings(t) ==
    /\ th[t].pc = "read_settings"
    /\ \/ UNCHANGED <<index, hist, calls, env>> /\ Return(t, get_settings(th[t].rtxn[1]))
       \/ Fail(t, "read")

Lookup(t) ==
    /\ th[t].pc = "lookup"
    /\ \/ UNCHANGED <<index, hist, calls, env>> /\ Return(t, get_document(th[t].rtxn[1], th[t].arg))
       \/ Fail(t, "read")

\* search.execute()?: the identifiers of the matching records
SearchStep(t) ==
    /\ th[t].pc = "search"
    /\ \/ /\ Advance(t, [th[t] EXCEPT !.loc = SearchExecute(th[t].rtxn[1], th[t].arg)])
          /\ UNCHANGED <<index, hist, calls, env>>
       \/ Fail(t, "search")

\* mutant: the records are read in a fresh read transaction
FetchTxn_Fresh(t) == index

\* the transaction search_documents reads the fields-ids map and the records
\* with: rtxn, the one the search ran in
FetchTxn(t) == th[t].rtxn[1]

\* index.fields_ids_map(&rtxn)?, index.documents(&rtxn, documents_ids)?, to JSON
Fetch(t) ==
    /\ th[t].pc = "fetch"
    /\ \/ /\ UNCHANGED <<index, hist, calls, env>>
          /\ Return(t, SearchFetch(FetchTxn(t), FetchTxn(t), th[t].loc))
       \/ Fail(t, "read")

----------------------------------------------------------------------------
(* The concurrent specification: two threads on one index                   *)

Batches == { <<Doc1a>>, <<Doc1b, Doc2a>>, <<DocNoId>> }

DeleteIds == { <<"3", "1">> }

DefaultSettings ==
    [ primary_key |-> None, searchable_fields |-> None,
      filterable_fields |-> <<>>, sortable_fields |-> <<>>,
      ranking_rules |-> <<"words", "typo", "proximity", "attribute", "sort", "exactness">>,
      stop_words |-> <<>>, synonyms |-> <<>>, typos_enabled |-> TRUE,
      min_word_size_for_one_typo |-> DefaultMinWordLenOneTypo,
      min_word_size_for_two_typos |-> DefaultMinWordLenTwoTypos,
      disallow_typos_on_words |-> <<>>, disallow_typos_on_fields |-> <<>> ]

SomeSettings ==
    { [DefaultSettings EXCEPT !.primary_key = Some("id"), !.stop_words = <<"the">>],
      [DefaultSettings EXCEPT !.ranking_rules = <<"words", "bogus">>] }

Queries == {"a"}

BeginAdd(t) == \E b \in Batches : Begin(t, "add_documents", b)
BeginSet(t) == \E b \in Batches : Begin(t, "set_documents", b)
BeginDelete(t) == \E ids \in DeleteIds : Begin(t, "delete_documents", ids)
BeginDeleteAll(t) == Begin(t, "delete_all_documents", <<>>)
BeginSetSettings(t) == \E s \in SomeSettings : Begin(t, "set_settings", s)
BeginGetAll(t) == Begin(t, "get_all_documents", <<>>)
BeginCount(t) == Begin(t, "number_of_documents", <<>>)
BeginSearch(t) == \E q \in Queries : Begin(t, "search_documents", q)

\* the index when the threads start: fresh, or holding documents added earlier
InitialIndexes == { EmptyIndex, IndexDocuments(EmptyIndex, <<Doc1a, Doc2b>>) }

Init ==
    /\ index \in InitialIndexes
    /\ th = [t \in Threads |-> Idle]
    /\ hist = << [op |-> "create_index", arg |-> <<>>, pre |-> index, post |-> index] >>
    /\ calls = 0
    /\ env = [probe |-> None, real |-> Some(MapSize(0))]

Next ==
    \E t \in Threads :
        \/ BeginAdd(t) \/ BeginSet(t) \/ BeginDelete(t) \/ BeginDeleteAll(t)
        \/ BeginSetSettings(t) \/ BeginGetAll(t) \/ BeginCount(t) \/ BeginSearch(t)
        \/ WriteTxn(t) \/ Serialize(t) \/ Clear(t) \/ AddBatch(t) \/ CheckInner(t)
        \/ Execute(t) \/ DeleteNew(t) \/ DeleteExecute(t) \/ Build(t)
        \/ SettingsExecute(t) \/ Commit(t)
        \/ ReadTxn(t) \/ ReadAll(t) \/ Count(t) \/ SearchStep(t) \/ Fetch(t)

Spec == Init /\ [][Next]_vars

----------------------------------------------------------------------------
(* Properties of the concurrent specification                               *)

\* the committed state of version v (the state after the v-1 first commits)
StateAt(v) == hist[v].post

\* the documents of an index, as a set of JSON objects
DocsOf(db) == SeqRange(get_all_documents(db).val)

Occurs(steps, name) == Cardinality({i \in 1..Len(steps) : steps[i] = name})

Returned(t) == th[t].pc = "done"
ReturnedOk(t) == th[t].pc = "done" /\ th[t].res[1].ok
ReturnedErr(t) == th[t].pc = "done" /\ ~th[t].res[1].ok

\* the result of a write operation that commits, applied to db in one piece
Effect(op, arg, db) ==
    CASE op = "add_documents" -> IndexDocuments(db, arg)
      [] op = "set_documents" -> IndexDocuments(ClearDocuments(db), arg)
      [] op = "delete_documents" -> DeleteDocuments(db, arg)
      [] op = "delete_all_documents" -> ClearDocuments(db)
      [] op = "set_settings" ->
            ExecuteSettings(db, SettingsBuilder(arg, ParseCriteria(arg.ranking_rules).val))

\* the committed writes replayed one after the other, in commit order
RECURSIVE SerialState(_)
SerialState(v) ==
    IF v = 1 THEN hist[1].post
    ELSE Effect(hist[v].op, hist[v].arg, SerialState(v - 1))

\* C1: set_documents is atomic for readers.  A set_documents with a non-empty
\* batch on a non-empty index commits exactly the batch; while its transaction is
\* open the committed index is still the old one; and every get_all_documents or
\* number_of_documents returns the documents of one committed version (the old
\* set or the new batch), never the emptied working copy.
C1_SetDocumentsAtomic ==
    /\ \A v \in 2..Len(hist) :
          ( /\ hist[v].op = "set_documents"
            /\ hist[v].arg # <<>>
            /\ number_of_documents(hist[v].pre) > 0 )
          => /\ hist[v].pre = StateAt(v - 1)
             /\ DocsOf(hist[v].post) = SeqRange(hist[v].arg)
    /\ \A w \in Threads :
          (th[w].op = "set_documents" /\ th[w].wtxn # None)
          => (th[w].ver = Len(hist) /\ index = StateAt(th[w].ver))
    /\ \A r \in Threads :
          /\ th[r].rtxn # None => th[r].rtxn[1] = StateAt(th[r].ver)
          /\ (ReturnedOk(r) /\ th[r].op = "get_all_documents")
             => th[r].res[1] = get_all_documents(StateAt(th[r].ver))
          /\ (ReturnedOk(r) /\ th[r].op = "number_of_documents")
             => th[r].res[1].val = number_of_documents(StateAt(th[r].ver))
          /\ ( /\ ReturnedOk(r)
               /\ th[r].op \in {"get_all_documents", "number_of_documents"}
               /\ th[r].conc # None
               /\ th[r].conc[1].op = "set_documents"
               /\ number_of_documents(StateAt(th[r].ver)) > 0 )
             => IF th[r].op = "get_all_documents"
                THEN th[r].res[1].val # <<>>
                ELSE th[r].res[1].val # 0

\* C1 witness: a get_all_documents whose read transaction was opened while a
\* set_documents was between its clear and its commit returned the old documents
C1_Witness ==
    \E r \in Threads :
        /\ ReturnedOk(r) /\ th[r].op = "get_all_documents"
        /\ th[r].conc # None
        /\ th[r].conc[1].op = "set_documents"
        /\ Occurs(th[r].conc[1].steps, "clear") = 1
        /\ th[r].res[1].val # <<>>

\* C2: an add_documents, set_documents, delete_documents or delete_all_documents
\* that returns an error leaves the committed index as it was: the step that
\* returns the error does not change it, and the only step of any operation that
\* changes it is a commit that succeeds, after which the operation returns Ok.
C2_ErrorLeavesIndex ==
    [][ /\ \A t \in Threads :
              (th[t].pc # "done" /\ ReturnedErr(t)') => index' = index
        /\ index' # index =>
              \E t \in Threads :
                  /\ th[t].pc = "commit" /\ th[t].op \in WriteOps
                  /\ ReturnedOk(t)'
                  /\ index' = th[t].wtxn[1] ]_vars

\* C2 witness: a set_documents failed after its clear step and the committed
\* index still holds its documents
C2_Witness ==
    \E t \in Threads :
        /\ ReturnedErr(t) /\ th[t].op = "set_documents"
        /\ Occurs(th[t].steps, "clear") = 1
        /\ th[t].end = th[t].ver
        /\ number_of_documents(index) > 0
        /\ index = StateAt(th[t].ver)

\* C3 as stated: every write operation that has returned opened exactly one
\* write transaction, committed it exactly once if it succeeded and never if it
\* failed, and holds no transaction.
C3_ExactlyOneWriteTxn ==
    \A t \in Threads :
        (Returned(t) /\ th[t].op \in WriteOps)
        => /\ Occurs(th[t].steps, "write_txn") = 1
           /\ th[t].res[1].ok => Occurs(th[t].steps, "commit") = 1
           /\ ~th[t].res[1].ok => Occurs(th[t].steps, "commit") = 0
           /\ th[t].wtxn = None /\ th[t].rtxn = None

\* C3 amended: every write operation opens at most one write transaction, and
\* exactly one unless it fails before one is open (add_documents failing to
\* serialize its batch, or write_txn itself failing); the transaction is committed
\* exactly once when the operation succeeds and never when it fails, and no
\* transaction is open once an operation has returned.
C3_AtMostOneWriteTxn ==
    \A t \in Threads :
        /\ th[t].pc \in {"idle", "done"} => (th[t].wtxn = None /\ th[t].rtxn = None)
        /\ th[t].op \in WriteOps =>
            /\ Occurs(th[t].steps, "write_txn") <= 1
            /\ Occurs(th[t].steps, "commit") <= 1
            /\ th[t].wtxn # None =>
                  /\ Occurs(th[t].steps, "write_txn") = 1
                  /\ Occurs(th[t].steps, "commit") = 0
            /\ ReturnedOk(t) =>
                  /\ Occurs(th[t].steps, "write_txn") = 1
                  /\ Occurs(th[t].steps, "commit") = 1
            /\ ReturnedErr(t) =>
                  /\ Occurs(th[t].steps, "commit") = 0
                  /\ Occurs(th[t].steps, "write_txn") = 0
                        => th[t].res[1].val \in {"serialize", "write_txn"}

\* C3 witness: one operation has committed and returned, another has failed with
\* its transaction open and returned; no transaction is left
C3_Witness ==
    \E t, u \in Threads :
        /\ ReturnedOk(t) /\ th[t].op = "set_settings"
        /\ Occurs(th[t].steps, "commit") = 1
        /\ ReturnedErr(u) /\ th[u].op = "delete_documents"
        /\ Occurs(th[u].steps, "write_txn") = 1
        /\ th[t].wtxn = None /\ th[u].wtxn = None

\* C4: when add_documents' batch step is accepted and the inner indexing result
\* is a user-data error, add_documents returns that error: it does not execute
\* the indexing builder, does not commit, and the committed index stays the one
\* its transaction started from.
C4_InnerResultChecked ==
    \A t \in Threads :
        ( /\ th[t].op = "add_documents"
          /\ Occurs(th[t].steps, "add") = 1
          /\ th[t].loc # None )
        => /\ th[t].pc \in {"check", "done"}
           /\ Returned(t) => th[t].res = Some(Err(th[t].loc[1]))
           /\ Occurs(th[t].steps, "execute") = 0
           /\ Occurs(th[t].steps, "commit") = 0
           /\ th[t].pc = "check" => index = StateAt(th[t].ver)
           /\ Returned(t) => th[t].end = th[t].ver

\* C4 witness: an add_documents of a document without the primary-key field has
\* returned the engine's user error
C4_Witness ==
    \E t \in Threads :
        /\ Returned(t) /\ th[t].op = "add_documents"
        /\ th[t].arg = <<DocNoId>>
        /\ th[t].res = Some(Err("MissingDocumentId"))

\* C5: write transactions serialize.  At most one write transaction is open at a
\* time, every commit applies its operation to the state committed just before
\* it, and the committed index equals the committed operations run one after the
\* other in commit order (no update is lost).
C5_WritesSerialize ==
    /\ Cardinality({t \in Threads : th[t].wtxn # None}) <= 1
    /\ \A v \in 2..Len(hist) :
          /\ hist[v].pre = StateAt(v - 1)
          /\ hist[v].post = Effect(hist[v].op, hist[v].arg, hist[v].pre)
    /\ index = SerialState(Len(hist))

\* C5 witness: two add_documents overlapped (the one that committed second was
\* called before the first had committed) and both are in the committed index
C5_Witness ==
    \E t, u \in Threads :
        /\ t # u
        /\ ReturnedOk(t) /\ ReturnedOk(u)
        /\ th[t].op = "add_documents" /\ th[u].op = "add_documents"
        /\ th[t].arg = <<Doc1a>> /\ th[u].arg = <<Doc1b, Doc2a>>
        /\ Len(hist) = 3
        /\ hist[2].arg = <<Doc1b, Doc2a>> /\ hist[3].arg = <<Doc1a>>
        /\ th[t].begun = 1 /\ th[t].ver = 2
        /\ DocsOf(index) = {Doc1a, Doc2a}

\* the documents of db that a search for value q must return
MatchingDocs(db, q) ==
    {d \in DocsOf(db) : "val" \in DOMAIN d /\ d["val"] = q}

\* C6: search_documents reads one snapshot.  The identifiers found by the search
\* all have a record in the transaction the records are fetched from, and a
\* search that returns Ok returns exactly the matching documents of the version
\* committed when its read transaction was opened, whatever commits meanwhile.
C6_SearchOneSnapshot ==
    \A t \in Threads :
        th[t].op = "search_documents" =>
            /\ th[t].pc = "fetch" =>
                  /\ th[t].rtxn = Some(StateAt(th[t].ver))
                  /\ SeqRange(th[t].loc) \subseteq DOMAIN FetchTxn(t).documents
            /\ ReturnedOk(t) =>
                  /\ SeqRange(th[t].res[1].val) = MatchingDocs(StateAt(th[t].ver), th[t].arg)
                  /\ Len(th[t].res[1].val) = Cardinality(MatchingDocs(StateAt(th[t].ver), th[t].arg))
            /\ ReturnedErr(t) => th[t].res[1].val \in {"read_txn", "search", "read"}

\* C6 witness: a search returned a document although a write that removed it
\* committed between the search's read_txn and its return
C6_Witness ==
    \E t \in Threads :
        /\ ReturnedOk(t) /\ th[t].op = "search_documents"
        /\ th[t].res[1].val # <<>>
        /\ th[t].end > th[t].ver
        /\ MatchingDocs(StateAt(th[t].end), th[t].arg) = {}

----------------------------------------------------------------------------
(* create_index on its own                                                  *)

BeginCreateIndex(t) == DirectoryFree /\ Begin(t, "create_index", <<>>)

\* no environment is open on the directory, which holds the index `db`
InitClosed(db) ==
    /\ index = db
    /\ th = [t \in Threads |-> Idle]
    /\ hist = << [op |-> "create_index", arg |-> <<>>, pre |-> db, post |-> db] >>
    /\ calls = 0
    /\ env = [probe |-> None, real |-> None]

InitCreate == InitClosed(EmptyIndex)

NextCreate ==
    \E t \in Threads :
        BeginCreateIndex(t) \/ CreateDir(t) \/ Probe(t) \/ Release(t) \/ OpenReal(t)

SpecCreate == InitCreate /\ [][NextCreate]_vars

AllFailed(a) == \A i \in 1..Len(a) : ~a[i].result.ok

\* C8: the probing loop of create_index makes at most MAP_SIZE_TRIES retries
\* (MAP_SIZE_TRIES + 1 open attempts), so it terminates; when every attempt has
\* failed the call has returned the error of the last attempt, and it never
\* released a probe or opened the real environment.
C8_ProbingBounded ==
    \A t \in Threads :
        LET a == th[t].probes
        IN  /\ Len(a) <= MAP_SIZE_TRIES + 1
            /\ th[t].pc = "probe" => /\ th[t].loc.retry = Len(a)
                                     /\ th[t].loc.retry <= MAP_SIZE_TRIES
                                     /\ AllFailed(a)
            /\ (Len(a) = MAP_SIZE_TRIES + 1 /\ AllFailed(a)) =>
                  /\ ReturnedErr(t)
                  /\ th[t].res[1] = a[Len(a)].result
                  /\ Occurs(th[t].steps, "release") = 0
                  /\ Occurs(th[t].steps, "open") = 0
            /\ (th[t].pc \in {"release", "open"} \/ Occurs(th[t].steps, "open") > 0) =>
                  /\ Len(a) >= 1
                  /\ a[Len(a)].result.ok
            /\ (th[t].pc \in {"probe", "release", "open"}) => env.real = None

C8_Witness ==
    \E t \in Threads :
        /\ ReturnedErr(t)
        /\ th[t].op = "create_index"
        /\ Len(th[t].probes) = MAP_SIZE_TRIES + 1
        /\ AllFailed(th[t].probes)
        /\ th[t].res[1].val = OpenError(MAP_SIZE_TRIES)

\* C9: after k failed probes, k <= MAP_SIZE_TRIES, create_index makes attempt
\* k + 1, and when that open succeeds the call goes on to open the real
\* environment with the size of that attempt and returns Ok unless Index::new
\* fails; the size of attempt i is the page-aligned size computed from
\* MAX_POSSIBLE_SIZE * MAP_EXP_BACKOFF_AMOUNT^(i-1), a multiple of
\* MAX_OS_PAGE_SIZE, and strictly smaller than the size of attempt i - 1.
C9_ProbeSizes ==
    \A t \in Threads :
        LET a == th[t].probes
        IN  /\ \A i \in 1..Len(a) :
                  /\ a[i].size = MapSize(i - 1)
                  /\ a[i].size % MAX_OS_PAGE_SIZE = 0
                  /\ a[i].size > 0
                  /\ i > 1 => a[i].size < a[i - 1].size
                  /\ i < Len(a) => ~a[i].result.ok
            /\ (Len(a) \in 1..MAP_SIZE_TRIES /\ AllFailed(a)) => th[t].pc = "probe"
            /\ (Len(a) >= 1 /\ a[Len(a)].result.ok) =>
                  /\ th[t].pc \in {"release", "open", "done"}
                  /\ th[t].loc.map_size = a[Len(a)].size
                  /\ ReturnedErr(t) => th[t].res[1].val = "index_new"
            /\ (ReturnedOk(t) /\ th[t].op = "create_index") =>
                  /\ Len(a) >= 1
                  /\ a[Len(a)].result.ok
                  /\ Occurs(th[t].steps, "open") = 1

C9_Witness ==
    \E t \in Threads :
        /\ ReturnedOk(t)
        /\ th[t].op = "create_index"
        /\ Len(th[t].probes) = MAP_SIZE_TRIES
        /\ AllFailed(SubSeq(th[t].probes, 1, MAP_SIZE_TRIES - 1))
        /\ env.real = Some(MapSize(MAP_SIZE_TRIES - 1))

----------------------------------------------------------------------------
(* The dump operations                                                      *)

PkSettings == [DefaultSettings EXCEPT !.primary_key = Some("id"), !.stop_words = <<"the">>]
BogusSettings == [DefaultSettings EXCEPT !.ranking_rules = <<"words", "bogus">>]

\* the dumps import_dump is given
Dumps ==
    { <<DefaultSettings, <<Doc1b, Doc2a>> >>,
      <<PkSettings, <<Doc1a>> >>,
      <<BogusSettings, <<Doc1a>> >>,
      <<DefaultSettings, <<DocNoId>> >> }

BeginCreateDump(t) == BeginOuter(t, "create_dump", <<>>)
BeginImportDump(t) == \E d \in Dumps : BeginOuter(t, "import_dump", d)

\* what the directory holds when the dump operations start
DumpIndexes ==
    { EmptyIndex,
      IndexDocuments(EmptyIndex, <<Doc1a, Doc2b>>),
      ExecuteSettings(EmptyIndex, SettingsBuilder(PkSettings, DefaultCriteria)) }

InitDump == \E db \in DumpIndexes : InitClosed(db)

NextDump ==
    \E t \in Threads :
        \/ BeginCreateDump(t) \/ BeginImportDump(t)
        \/ CreateDir(t) \/ Probe(t) \/ Release(t) \/ OpenReal(t)
        \/ ReadTxn(t) \/ ReadSettings(t) \/ ReadAll(t)
        \/ WriteTxn(t) \/ Build(t) \/ SettingsExecute(t)
        \/ Clear(t) \/ Serialize(t) \/ AddBatch(t) \/ CheckInner(t) \/ Execute(t)
        \/ Commit(t)
        \/ CloseWait(t)

SpecDump == InitDump /\ [][NextDump]_vars

\* the dump operation of thread t has opened its environment
DumpOpened(t) == Occurs(th[t].osteps, "create_index") = 1

\* C7: a dump operation that has opened its environment returns only from the
\* close/wait step, with the status its closure ended with, success or error;
\* until that step the environment is open and nothing has been returned.
C7_CloseBeforeReturn ==
    \A t \in Threads :
        /\ (th[t].pc = "done" /\ th[t].op \in DumpOps /\ DumpOpened(t)) =>
              /\ Occurs(th[t].osteps, "close_wait") = 1
              /\ th[t].osteps[Len(th[t].osteps)] = "close_wait"
              /\ th[t].res = th[t].out.status
        /\ (th[t].pc # "done" /\ (th[t].op \in DumpOps \/ th[t].outer \in DumpOps)
               /\ DumpOpened(t)) =>
              /\ Occurs(th[t].osteps, "close_wait") = 0
              /\ env.real # None
              /\ th[t].res = None
        /\ (th[t].pc = "close_wait") => th[t].out.status # None

C7_Witness ==
    \E t, u \in Threads :
        /\ ReturnedErr(t) /\ th[t].op = "create_dump" /\ DumpOpened(t)
        /\ th[t].osteps[Len(th[t].osteps)] = "close_wait"
        /\ ReturnedErr(u) /\ th[u].op = "import_dump" /\ DumpOpened(u)
        /\ Occurs(th[u].osteps, "set_settings") = 1
        /\ th[u].osteps[Len(th[u].osteps)] = "close_wait"

----------------------------------------------------------------------------
(* set_settings and get_settings                                            *)

\* the settings set_settings is given
SettingsSamples ==
    { DefaultSettings,
      BogusSettings,
      [DefaultSettings EXCEPT !.primary_key = Some("id"),
                              !.searchable_fields = Some(<<"val">>),
                              !.filterable_fields = <<"val", "id">>,
                              !.ranking_rules = <<"typo", "words">>,
                              !.stop_words = <<"the">>,
                              !.synonyms = << [word |-> "nyc", synonyms |-> <<"gotham">>] >>,
                              !.typos_enabled = FALSE],
      [DefaultSettings EXCEPT !.ranking_rules = <<"words", "price:asc">>],
      [DefaultSettings EXCEPT !.primary_key = Some("id"),
                              !.searchable_fields = Some(<<"val">>),
                              !.stop_words = <<"a">>,
                              !.ranking_rules = <<"words", "bogus", "typo">>],
      [DefaultSettings EXCEPT !.synonyms =
                                 << [word |-> "new york", synonyms |-> <<"nyc">>] >>] }

BeginSetSettingsOf(t) == \E s \in SettingsSamples : Begin(t, "set_settings", s)
BeginGetSettings(t) == Begin(t, "get_settings", <<>>)

\* the index when the threads start: fresh, holding documents, or holding
\* settings written earlier
SettingsIndexes ==
    { EmptyIndex,
      IndexDocuments(EmptyIndex, <<Doc1a, Doc2b>>),
      ExecuteSettings(EmptyIndex,
                      SettingsBuilder([PkSettings EXCEPT !.searchable_fields = Some(<<"id">>)],
                                      DefaultCriteria)) }

InitSettings ==
    /\ index \in SettingsIndexes
    /\ th = [t \in Threads |-> Idle]
    /\ hist = << [op |-> "create_index", arg |-> <<>>, pre |-> index, post |-> index] >>
    /\ calls = 0
    /\ env = [probe |-> None, real |-> Some(MapSize(0))]

NextSettings ==
    \E t \in Threads :
        \/ BeginSetSettingsOf(t) \/ BeginGetSettings(t)
        \/ WriteTxn(t) \/ Build(t) \/ SettingsExecute(t) \/ Commit(t)
        \/ ReadTxn(t) \/ ReadSettings(t)

SpecSettings == InitSettings /\ [][NextSettings]_vars

\* a synonyms list as a set of (word, set of synonyms)
SynonymsSet(syns) ==
    {[word |-> syns[i].word, synonyms |-> SeqRange(syns[i].synonyms)] : i \in 1..Len(syns)}

\* two settings values agree on every facet: the ordered facets as lists, the
\* facets that are collections of names as sets
SameSettings(a, b) ==
    /\ a.primary_key = b.primary_key
    /\ a.searchable_fields = b.searchable_fields
    /\ SeqRange(a.filterable_fields) = SeqRange(b.filterable_fields)
    /\ SeqRange(a.sortable_fields) = SeqRange(b.sortable_fields)
    /\ a.ranking_rules = b.ranking_rules
    /\ SeqRange(a.stop_words) = SeqRange(b.stop_words)
    /\ SynonymsSet(a.synonyms) = SynonymsSet(b.synonyms)
    /\ a.typos_enabled = b.typos_enabled
    /\ a.min_word_size_for_one_typo = b.min_word_size_for_one_typo
    /\ a.min_word_size_for_two_typos = b.min_word_size_for_two_typos
    /\ SeqRange(a.disallow_typos_on_words) = SeqRange(b.disallow_typos_on_words)
    /\ SeqRange(a.disallow_typos_on_fields) = SeqRange(b.disallow_typos_on_fields)

\* thread r has read the settings from the state a set_settings(s) committed
ReadsBack(r, s) ==
    /\ ReturnedOk(r)
    /\ th[r].op = "get_settings"
    /\ hist[th[r].ver].op = "set_settings"
    /\ hist[th[r].ver].arg = s

\* C10: get_settings reading the state a set_settings(s) committed returns a
\* value equal to s on every facet, an absent primary key or searchable-field
\* list reading back as absent whatever it was before.
C10_SettingsRoundTrip ==
    \A r \in Threads : \A s \in SettingsSamples :
        ReadsBack(r, s) => SameSettings(th[r].res[1].val, s)

\* C10, the part that holds: the facets other than the ranking rules and the
\* synonyms read back as set; an absent primary key or searchable-field list
\* reads back as absent whatever it was before the call.
C10_FullReplace ==
    \A r \in Threads : \A s \in SettingsSamples :
        ReadsBack(r, s) =>
            LET got == th[r].res[1].val
            IN  /\ SameSettings([got EXCEPT !.ranking_rules = s.ranking_rules,
                                            !.synonyms = s.synonyms], s)
                /\ s.primary_key = None => got.primary_key = None
                /\ s.searchable_fields = None => got.searchable_fields = None

C10_Witness ==
    \E r \in Threads :
        /\ ReadsBack(r, DefaultSettings)
        /\ hist[th[r].ver].pre.main.primary_key = Some("id")
        /\ hist[th[r].ver].pre.main.searchable_fields # None
        /\ th[r].res[1].val.primary_key = None

----------------------------------------------------------------------------
(* set_settings: all or nothing                                             *)

\* the ranking-rule names of s that are not in the vocabulary of six
OutsideVocabulary(s) ==
    {i \in 1..Len(s.ranking_rules) : s.ranking_rules[i] \notin CriterionNames}

\* the committed state changes by commits only, each commit of a set_settings
\* writing every facet of its argument at once
SettingsCommitsWhole ==
    /\ index = hist[Len(hist)].post
    /\ \A i \in 2..Len(hist) :
          /\ hist[i].pre = hist[i - 1].post
          /\ hist[i].op = "set_settings" =>
                /\ ParseCriteria(hist[i].arg.ranking_rules).ok
                /\ hist[i].post =
                      ExecuteSettings(hist[i].pre,
                          SettingsBuilder(hist[i].arg,
                                          ParseCriteria(hist[i].arg.ranking_rules).val))

\* C11: a set_settings given a ranking-rule name outside the vocabulary returns
\* an error without having executed or committed anything, so that no facet
\* changes (the primary key and the searchable fields handed to the builder
\* included); a set_settings that succeeds commits all its facets at once.
C11_UnknownRuleChangesNothing ==
    /\ SettingsCommitsWhole
    /\ \A t \in Threads :
          (Returned(t) /\ th[t].op = "set_settings" /\ OutsideVocabulary(th[t].arg) # {}) =>
              /\ ReturnedErr(t)
              /\ Occurs(th[t].steps, "settings_execute") = 0
              /\ Occurs(th[t].steps, "commit") = 0

\* C11, the part that holds: the same for the names the engine's parser
\* refuses (neither one of the six nor "<field>:asc" / "<field>:desc").
C11_RefusedRuleChangesNothing ==
    /\ SettingsCommitsWhole
    /\ \A t \in Threads :
          (Returned(t) /\ th[t].op = "set_settings"
              /\ ~ParseCriteria(th[t].arg.ranking_rules).ok) =>
              /\ ReturnedErr(t)
              /\ Occurs(th[t].steps, "write_txn") = 1 =>
                    th[t].res[1].val = "InvalidCriterionName"
              /\ Occurs(th[t].steps, "settings_execute") = 0
              /\ Occurs(th[t].steps, "commit") = 0
              /\ th[t].wtxn = None

C11_Witness ==
    \E t \in Threads :
        /\ ReturnedErr(t)
        /\ th[t].op = "set_settings"
        /\ th[t].arg.primary_key = Some("id")
        /\ th[t].res[1].val = "InvalidCriterionName"
        /\ Occurs(th[t].steps, "write_txn") = 1
        /\ index.main.primary_key = None
        /\ Len(hist) = 1

----------------------------------------------------------------------------
(* The filter compiler: impl From<&Filter> for milli::FilterCondition       *)

\* mutant: the condition node loses the field it is scoped to
create_condition_NoField(s, cond) == [node |-> "Condition", fid |-> "", op |-> cond]

\* create_condition (lines 457-462)
create_condition(s, cond) == [node |-> "Condition", fid |-> s, op |-> cond]

\* From<&Filter>::from (lines 465-515), one case per arm of the match
RECURSIVE FilterConditionFrom(_)
FilterConditionFrom(f) ==
    CASE f.tag = "Or" ->
            [node |-> "Or",
             children |-> [i \in 1..Len(f.filters) |-> FilterConditionFrom(f.filters[i])]]
      [] f.tag = "And" ->
            [node |-> "And",
             children |-> [i \in 1..Len(f.filters) |-> FilterConditionFrom(f.filters[i])]]
      [] f.tag = "Not" -> [node |-> "Not", child |-> FilterConditionFrom(f.filter)]
      [] f.tag = "InValues" -> [node |-> "In", fid |-> f.field, els |-> f.values]
      [] f.tag = "GreaterThan" ->
            create_condition(f.field, [kind |-> "GreaterThan", value |-> f.value])
      [] f.tag = "GreaterThanOrEqual" ->
            create_condition(f.field, [kind |-> "GreaterThanOrEqual", value |-> f.value])
      [] f.tag = "Equal" ->
            create_condition(f.field, [kind |-> "Equal", value |-> f.value])
      [] f.tag = "NotEqual" ->
            create_condition(f.field, [kind |-> "NotEqual", value |-> f.value])
      [] f.tag = "LessThan" ->
            create_condition(f.field, [kind |-> "LowerThan", value |-> f.value])
      [] f.tag = "LessThanOrEqual" ->
            create_condition(f.field, [kind |-> "LowerThanOrEqual", value |-> f.value])
      [] f.tag = "Between" ->
            create_condition(f.field, [kind |-> "Between", from |-> f.from, to |-> f.to])
      [] f.tag = "Exists" -> create_condition(f.field, [kind |-> "Exists"])
      [] f.tag = "IsNull" -> create_condition(f.field, [kind |-> "Null"])
      [] f.tag = "IsEmpty" -> create_condition(f.field, [kind |-> "Empty"])

\* Filter values: the leaves
Comparison(tag, field, value) == [tag |-> tag, field |-> field, value |-> value]
FieldTest(tag, field) == [tag |-> tag, field |-> field]
InValues(field, values) == [tag |-> "InValues", field |-> field, values |-> values]

FilterLeaves ==
    {Comparison(tag, "year", "2010") :
        tag \in {"Equal", "NotEqual", "GreaterThan", "GreaterThanOrEqual",
                 "LessThan", "LessThanOrEqual"}}
    \cup {Comparison("Equal", "val", "a"),
          [tag |-> "Between", field |-> "year", from |-> "2000", to |-> "2010"],
          [tag |-> "Between", field |-> "year", from |-> "2010", to |-> "2000"],
          InValues("val", <<>>), InValues("val", <<"a", "b">>),
          InValues("val", <<"b", "a", "b">>)}
    \cup {FieldTest(tag, "val") : tag \in {"Exists", "IsNull", "IsEmpty"}}

\* Filter values: Or / And / Not over the filters of S, at most MaxArity
\* sub-filters under an Or or And
MaxArity == 2

SeqsUpTo(S, n) == UNION {[1..k -> S] : k \in 0..n}

Combined(S) ==
    {[tag |-> "Not", filter |-> f] : f \in S}
    \cup {[tag |-> tag, filters |-> fs] : tag \in {"Or", "And"}, fs \in SeqsUpTo(S, MaxArity)}

\* the filters the compiler is given: leaves, and trees of depth one and two
Filters ==
    LET few == {Comparison("LessThan", "year", "2010"), FieldTest("IsNull", "val"),
                InValues("val", <<"b", "a", "b">>)}
        mid == {[tag |-> "Not", filter |-> FieldTest("Exists", "val")],
                [tag |-> "Or", filters |-> <<>>],
                [tag |-> "And", filters |-> <<Comparison("Equal", "val", "a"),
                                             Comparison("Equal", "val", "a")>>],
                Comparison("GreaterThan", "year", "2010")}
    IN  FilterLeaves
        \cup {[tag |-> "Not", filter |-> f] : f \in FilterLeaves}
        \cup Combined(few) \cup Combined(mid)

\* the compiler is about to be applied to a filter
InitFilter ==
    /\ index = EmptyIndex
    /\ hist = << [op |-> "create_index", arg |-> <<>>, pre |-> index, post |-> index] >>
    /\ calls = 0
    /\ env = [probe |-> None, real |-> None]
    /\ \E f \in Filters :
          th = [t \in Threads |->
                  IF t = "t1" THEN [Idle EXCEPT !.op = "filter_from", !.pc = "compile", !.arg = f]
                  ELSE Idle]

\* let filter: milli::FilterCondition = filter.into()
Compile(t) ==
    /\ th[t].pc = "compile"
    /\ th' = [th EXCEPT ![t].pc = "done", ![t].res = Some(FilterConditionFrom(th[t].arg))]
    /\ UNCHANGED <<index, hist, calls, env>>

NextFilter == \E t \in Threads : Compile(t)

SpecFilter == InitFilter /\ [][NextFilter]_vars

\* the engine's operator each leaf variant stands for
OperatorOf(tag) ==
    CASE tag = "LessThan" -> "LowerThan"
      [] tag = "LessThanOrEqual" -> "LowerThanOrEqual"
      [] tag = "IsNull" -> "Null"
      [] tag = "IsEmpty" -> "Empty"
      [] OTHER -> tag

\* the condition tree c is the filter tree f, node for node
RECURSIVE Isomorphic(_, _)
Isomorphic(f, c) ==
    CASE f.tag \in {"Or", "And"} ->
            /\ c.node = f.tag
            /\ DOMAIN c = {"node", "children"}
            /\ Len(c.children) = Len(f.filters)
            /\ \A i \in 1..Len(f.filters) : Isomorphic(f.filters[i], c.children[i])
      [] f.tag = "Not" ->
            /\ c.node = "Not"
            /\ DOMAIN c = {"node", "child"}
            /\ Isomorphic(f.filter, c.child)
      [] f.tag = "InValues" ->
            /\ c.node = "In"
            /\ c.fid = f.field
            /\ c.els = f.values
      [] OTHER ->
            /\ c.node = "Condition"
            /\ c.fid = f.field
            /\ c.op.kind = OperatorOf(f.tag)
            /\ f.tag \in {"Equal", "NotEqual", "GreaterThan", "GreaterThanOrEqual",
                          "LessThan", "LessThanOrEqual"} =>
                  DOMAIN c.op = {"kind", "value"} /\ c.op.value = f.value
            /\ f.tag = "Between" =>
                  DOMAIN c.op = {"kind", "from", "to"} /\ c.op.from = f.from /\ c.op.to = f.to
            /\ f.tag \in {"Exists", "IsNull", "IsEmpty"} => DOMAIN c.op = {"kind"}

\* C12: the compiler is defined on every filter, and the condition tree it
\* returns has the shape of the filter tree: the same node kind, arity and child
\* order at every Or / And / Not, and at every leaf the same field, the
\* operator of the variant and the same literals.
C12_CompilerPreservesStructure ==
    \A t \in Threads :
        (th[t].op = "filter_from" /\ th[t].pc = "done") =>
            Isomorphic(th[t].arg, th[t].res[1])

C12_Witness ==
    \E t \in Threads :
        /\ th[t].op = "filter_from" /\ th[t].pc = "done"
        /\ th[t].arg.tag = "And"
        /\ Len(th[t].arg.filters) = 2
        /\ th[t].arg.filters[1].tag = "Not"
        /\ th[t].arg.filters[2].tag = "And"
        /\ th[t].res[1].children[2].children[1].op.kind = "Equal"

----------------------------------------------------------------------------
(* Frame effects of the deletions                                           *)

\* the documents of db whose external identifier is among ids
Named(db, ids) == {d \in DocsOf(db) : d.id \in SeqRange(ids)}

\* the failures of the engine calls of delete_documents
DeleteFailures == {"write_txn", "delete_new", "execute", "commit"}

\* C13: a committed delete_documents(ids) removes exactly the documents whose
\* external identifier is in ids and changes nothing else; identifiers that
\* match no document are skipped, so a list of unknown identifiers leaves the
\* document set and number_of_documents as they were, and no error a
\* delete_documents returns comes from its identifiers.
C13_DeleteSkipsUnknown ==
    /\ \A i \in 2..Len(hist) :
          hist[i].op = "delete_documents" =>
              LET pre == hist[i].pre
                  post == hist[i].post
                  named == Named(pre, hist[i].arg)
              IN  /\ DocsOf(post) = DocsOf(pre) \ named
                  /\ number_of_documents(post) = number_of_documents(pre) - Cardinality(named)
                  /\ post.main = pre.main
                  /\ named = {} => /\ DocsOf(post) = DocsOf(pre)
                                   /\ number_of_documents(post) = number_of_documents(pre)
    /\ \A t \in Threads :
          (Returned(t) /\ th[t].op = "delete_documents") =>
              /\ ReturnedErr(t) => th[t].res[1].val \in DeleteFailures
              /\ ReturnedOk(t) => Occurs(th[t].steps, "commit") = 1

C13_Witness ==
    \E t \in Threads : \E i, j \in 2..Len(hist) :
        /\ ReturnedOk(t)
        /\ th[t].op = "delete_documents"
        /\ th[t].end = i
        /\ hist[i].op = "delete_documents"
        /\ Named(hist[i].pre, hist[i].arg) = {}
        /\ number_of_documents(hist[i].post) > 0
        /\ hist[j].op = "delete_documents"
        /\ Cardinality(Named(hist[j].pre, hist[j].arg)) = 1
        /\ number_of_documents(hist[j].pre) = 2

\* C14: a committed delete_all_documents leaves no document in the index and
\* leaves every settings facet, as stored and as get_settings reads it, as it
\* was before the call.
C14_DeleteAllKeepsSettings ==
    /\ \A i \in 2..Len(hist) :
          hist[i].op = "delete_all_documents" =>
              /\ number_of_documents(hist[i].post) = 0
              /\ get_all_documents(hist[i].post) = Ok(<<>>)
              /\ hist[i].post.main = hist[i].pre.main
              /\ get_settings(hist[i].post) = get_settings(hist[i].pre)
    /\ \A t \in Threads :
          (ReturnedOk(t) /\ th[t].op = "delete_all_documents") =>
              /\ hist[th[t].end].op = "delete_all_documents"
              /\ Occurs(th[t].steps, "commit") = 1

C14_Witness ==
    \E t \in Threads :
        /\ ReturnedOk(t)
        /\ th[t].op = "delete_all_documents"
        /\ number_of_documents(hist[th[t].end].pre) = 2
        /\ hist[th[t].end].pre.main.primary_key = Some("id")
        /\ hist[th[t].end].pre.main.stop_words = Some({"the"})
        /\ index.main.stop_words = Some({"the"})
        /\ number_of_documents(index) = 0

----------------------------------------------------------------------------
(* Lookups by identifier: add_documents and get_document on one index       *)

LookupBatches == { <<Doc1b>>, <<Doc2a, Doc1b>>, <<Doc1a, Doc1b>>, <<DocNoId>> }

LookupIds == {"1", "2", "3"}

BeginAddLookup(t) == \E b \in LookupBatches : Begin(t, "add_documents", b)
BeginGetDocument(t) == \E id \in LookupIds : Begin(t, "get_document", id)

\* an index whose identifier map names a record the documents store does not
\* hold (line 164: the lookup of the record can find nothing)
RecordLost(db, document_id) ==
    [db EXCEPT !.documents =
        [i \in DOMAIN db.documents \ {db.external_ids[document_id]} |-> db.documents[i]]]

LookupIndexes ==
    { EmptyIndex,
      IndexDocuments(EmptyIndex, <<Doc1a, Doc2b>>),
      RecordLost(IndexDocuments(EmptyIndex, <<Doc1a, Doc2b>>), "2") }

InitLookup ==
    /\ index \in LookupIndexes
    /\ th = [t \in Threads |-> Idle]
    /\ hist = << [op |-> "create_index", arg |-> <<>>, pre |-> index, post |-> index] >>
    /\ calls = 0
    /\ env = [probe |-> None, real |-> Some(MapSize(0))]

NextLookup ==
    \E t \in Threads :
        \/ BeginAddLookup(t) \/ BeginGetDocument(t)
        \/ Serialize(t) \/ WriteTxn(t) \/ AddBatch(t) \/ CheckInner(t)
        \/ Execute(t) \/ Commit(t)
        \/ ReadTxn(t) \/ Lookup(t)

SpecLookup == InitLookup /\ [][NextLookup]_vars

\* the record of a batch that is written last under an identifier
LastWithId(batch, id) ==
    batch[CHOOSE i \in 1..Len(batch) :
              /\ batch[i].id = id
              /\ \A j \in (i+1)..Len(batch) : batch[j].id # id]

\* the get_document call of thread t read the state committed by an
\* add_documents whose batch names the identifier looked up
ReadsAdded(t) ==
    /\ Returned(t)
    /\ th[t].op = "get_document"
    /\ th[t].ver >= 2
    /\ hist[th[t].ver].op = "add_documents"
    /\ \E k \in 1..Len(hist[th[t].ver].arg) : hist[th[t].ver].arg[k].id = th[t].arg

\* C15: once add_documents(batch) has committed, get_document(id) returns, for
\* every identifier of the batch, the record the batch gave for it, whatever the
\* index held before (a document of the same identifier included).
C15_AddedDocumentsReadBack ==
    /\ \A i \in 2..Len(hist) :
          hist[i].op = "add_documents" =>
              \A k \in 1..Len(hist[i].arg) :
                  LET r == get_document(hist[i].post, hist[i].arg[k].id)
                  IN  /\ r.ok
                      /\ r.val = Some(LastWithId(hist[i].arg, hist[i].arg[k].id))
    /\ \A t \in Threads :
          ReadsAdded(t) =>
              IF th[t].res[1].ok
              THEN th[t].res[1].val = Some(LastWithId(hist[th[t].ver].arg, th[t].arg))
              ELSE th[t].res[1].val = "read"

C15_Witness ==
    \E t \in Threads :
        /\ ReadsAdded(t)
        /\ th[t].res[1].ok
        /\ th[t].arg = "1"
        /\ get_document(hist[th[t].ver].pre, "1") = Ok(Some(Doc1a))
        /\ Len(hist[th[t].ver].arg) = 2
        /\ th[t].res[1].val = Some(Doc1b)

\* the get_document call of thread t has opened its read transaction and returned
LookedUp(t) ==
    /\ Returned(t)
    /\ th[t].op = "get_document"
    /\ Occurs(th[t].steps, "read_txn") = 1

\* C16: get_document has three outcomes, set by the snapshot it reads: the
\* identifier is not in the identifier map and the result is Ok(None); it is
\* there with its record and the result is that document; it is there without
\* a record and the result is an error.
C16_LookupOutcomes ==
    \A t \in Threads :
        LookedUp(t) =>
            LET db == StateAt(th[t].ver)
                id == th[t].arg
                r == th[t].res[1]
            IN  IF ~r.ok /\ r.val = "read" THEN TRUE
                ELSE IF id \notin DOMAIN db.external_ids THEN r.ok /\ r.val = None
                ELSE IF db.external_ids[id] \in DOMAIN db.documents
                     THEN /\ r.ok
                          /\ r.val = Some(all_obkv_to_json(db.documents[db.external_ids[id]],
                                                           db.fields_ids_map).val)
                ELSE ~r.ok /\ r.val \in {"UnknownInternalDocumentId", "Missing document"}

C16_Witness ==
    \E t, u \in Threads :
        /\ LookedUp(t) /\ LookedUp(u)
        /\ th[t].arg = "2"
        /\ "2" \in DOMAIN StateAt(th[t].ver).external_ids
        /\ ~th[t].res[1].ok
        /\ th[t].res[1].val # "read"
        /\ th[u].arg = "3"
        /\ th[u].res[1].ok
        /\ th[u].res[1].val = None

----------------------------------------------------------------------------
(* The dump round trip: create_dump on one directory, import_dump of the    *)
(* value it returned into another                                           *)

RichSettings ==
    [DefaultSettings EXCEPT !.primary_key = Some("id"),
                            !.searchable_fields = Some(<<"val">>),
                            !.filterable_fields = <<"val", "id">>,
                            !.ranking_rules = <<"typo", "words">>,
                            !.stop_words = <<"the">>,
                            !.synonyms = << [word |-> "nyc", synonyms |-> <<"gotham">>] >>,
                            !.typos_enabled = FALSE]

TwoStateSettings ==
    [DefaultSettings EXCEPT !.synonyms =
        << [word |-> "new york", synonyms |-> <<"nyc">>],
           [word |-> "new jersey", synonyms |-> <<"nj">>] >>]

\* the index after set_settings(s) and add_documents(batch) on a fresh directory
Populated(s, batch) ==
    IndexDocuments(
        ExecuteSettings(EmptyIndex, SettingsBuilder(s, ParseCriteria(s.ranking_rules).val)),
        batch)

\* what the dumped directory holds
SourceIndexes ==
    { EmptyIndex,
      IndexDocuments(EmptyIndex, <<Doc1a, Doc2b>>),
      Populated(RichSettings, <<Doc1a>>),
      Populated([DefaultSettings EXCEPT !.ranking_rules = <<"words", "price:asc">>], <<>>),
      Populated(TwoStateSettings, <<Doc2b>>) }

\* what the directory import_dump is pointed at holds: nothing (a fresh
\* directory), or documents of its own
TargetIndexes == { EmptyIndex, IndexDocuments(EmptyIndex, <<Doc1b, Doc2a>>) }

\* import_dump(dir, dump) with the dump a create_dump returned and dir another
\* directory: from here on `index` is the content of that directory; the
\* history notes the change of directory with the content of both
BeginRestore(t) ==
    \E u \in Threads : \E target \in TargetIndexes :
        /\ ReturnedOk(u)
        /\ th[u].op = "create_dump"
        /\ DirectoryFree
        /\ calls < MaxCalls
        /\ calls' = calls + 1
        /\ index' = target
        /\ hist' = Append(hist, [op |-> "directory", arg |-> th[u].res[1].val,
                                 pre |-> index, post |-> target])
        /\ th' = [th EXCEPT ![t] =
                     [Idle EXCEPT !.op = "create_index", !.pc = FirstPc("create_index"),
                                  !.outer = "import_dump", !.begun = Len(hist'),
                                  !.out = [dump |-> th[u].res[1].val, settings |-> None,
                                           status |-> None]]]
        /\ UNCHANGED env

InitRoundTrip == \E db \in SourceIndexes : InitClosed(db)

NextRoundTrip ==
    \E t \in Threads :
        \/ BeginCreateDump(t) \/ BeginRestore(t)
        \/ CreateDir(t) \/ Probe(t) \/ Release(t) \/ OpenReal(t)
        \/ ReadTxn(t) \/ ReadSettings(t) \/ ReadAll(t)
        \/ WriteTxn(t) \/ Build(t) \/ SettingsExecute(t)
        \/ Clear(t) \/ Serialize(t) \/ AddBatch(t) \/ CheckInner(t) \/ Execute(t)
        \/ Commit(t)
        \/ CloseWait(t)

SpecRoundTrip == InitRoundTrip /\ [][NextRoundTrip]_vars

\* thread t has imported, with success, the dump of another directory
Restored(t) ==
    /\ ReturnedOk(t)
    /\ th[t].op = "import_dump"
    /\ hist[th[t].begun].op = "directory"

\* no two synonym entries of the index share the first word of their key
SynonymKeysApart(db) ==
    \A k, l \in DOMAIN db.main.synonyms : k[1] = l[1] => k = l

\* C17: after create_dump and import_dump of its result into a fresh directory,
\* get_settings and get_all_documents (as a set) of the restored index equal
\* those of the dumped one; imported into a directory holding documents, the
\* dump's documents replace them.
C17_DumpRoundTrip ==
    \A t \in Threads :
        Restored(t) =>
            LET source == hist[th[t].begun].pre
                target == hist[th[t].begun].post
                restored == StateAt(th[t].end)
            IN  /\ DocsOf(restored) = SeqRange(hist[th[t].begun].arg[2])
                /\ target = EmptyIndex =>
                      /\ DocsOf(restored) = DocsOf(source)
                      /\ SameSettings(get_settings(restored).val, get_settings(source).val)

\* C17, the part that holds: the documents always come back, and replace those
\* of the target; the settings come back when no two synonym keys of the dumped
\* index start with the same word.
C17_RoundTripButSynonyms ==
    \A t \in Threads :
        Restored(t) =>
            LET source == hist[th[t].begun].pre
                target == hist[th[t].begun].post
                restored == StateAt(th[t].end)
            IN  /\ DocsOf(restored) = SeqRange(hist[th[t].begun].arg[2])
                /\ target = EmptyIndex =>
                      /\ DocsOf(restored) = DocsOf(source)
                      /\ SynonymKeysApart(source) =>
                            SameSettings(get_settings(restored).val, get_settings(source).val)

C17_Witness ==
    \E t \in Threads :
        /\ Restored(t)
        /\ hist[th[t].begun].post = EmptyIndex
        /\ Cardinality(DOMAIN hist[th[t].begun].pre.main.synonyms) = 2
        /\ Len(get_settings(hist[th[t].begun].pre).val.synonyms) = 2
        /\ Len(get_settings(index).val.synonyms) = 1
        /\ DocsOf(index) = {Doc2b}

----------------------------------------------------------------------------
(* fancy_search: the filter text of the query, then the engine's search     *)

\* serde_json::from_str::<Value>(s): a quoted text is a JSON string, a bare
\* filter expression is not JSON
from_str(s) ==
    CASE s = "\"val = a\"" -> Ok("val = a")
      [] OTHER -> Err("expected value")

\* the filter texts a query carries: none, a JSON string, a bare expression
FancyFilters == { None, Some("\"val = a\""), Some("val = a") }

BeginFancySearch(t) ==
    \E f \in FancyFilters : Begin(t, "fancy_search", [query |-> "", filter |-> f])

\* line 191: q.filter.and_then(|s| from_str(&s).ok())
ParseFilter(t) ==
    /\ th[t].pc = "filter"
    /\ Advance(t, [th[t] EXCEPT !.loc =
                      IF th[t].arg.filter = None THEN None
                      ELSE IF from_str(th[t].arg.filter[1]).ok
                           THEN Some(from_str(th[t].arg.filter[1]).val)
                           ELSE None])
    /\ UNCHANGED <<index, hist, calls, env>>

\* perform_search with an empty query text: every document, or, under the
\* filter "val = a", the documents whose val is a; filtering on a field that
\* is not filterable is an error
perform_search(db, filter) ==
    IF filter = None THEN get_all_documents(db)
    ELSE IF "val" \notin db.main.filterable_fields THEN Err("InvalidSearchFilter")
    ELSE SearchFetch(db, db, SearchExecute(db, "a"))

\* lines 224-238: the search runs on the state committed now, `res?`, the hits
PerformSearch(t) ==
    /\ th[t].pc = "perform_search"
    /\ UNCHANGED <<index, hist, calls, env>>
    /\ \/ ReturnWith(t, [th[t] EXCEPT !.ver = Len(hist)], perform_search(index, th[t].loc))
       \/ ReturnWith(t, th[t], Err("perform_search"))

FilterableVal == [DefaultSettings EXCEPT !.filterable_fields = <<"val">>]

FancyIndexes ==
    { IndexDocuments(EmptyIndex, <<Doc1a, Doc2b>>),
      Populated(FilterableVal, <<Doc1a, Doc2b>>) }

InitFancy ==
    /\ index \in FancyIndexes
    /\ th = [t \in Threads |-> Idle]
    /\ hist = << [op |-> "create_index", arg |-> <<>>, pre |-> index, post |-> index] >>
    /\ calls = 0
    /\ env = [probe |-> None, real |-> Some(MapSize(0))]

NextFancy ==
    \E t \in Threads :
        \/ BeginFancySearch(t) \/ BeginDeleteAll(t)
        \/ ParseFilter(t) \/ PerformSearch(t)
        \/ WriteTxn(t) \/ Clear(t) \/ Commit(t)

SpecFancy == InitFancy /\ [][NextFancy]_vars

\* thread t has returned from a fancy_search whose query carried a filter text
\* that is not JSON
UnparsableFilter(t) ==
    /\ Returned(t)
    /\ th[t].op = "fancy_search"
    /\ th[t].arg.filter # None
    /\ ~from_str(th[t].arg.filter[1]).ok

\* C18: no failure is swallowed; a fancy_search given a filter that cannot be
\* parsed returns an error, it does not return the hits of the search without
\* a filter.
C18_UnparsableFilterIsAnError ==
    \A t \in Threads : UnparsableFilter(t) => ReturnedErr(t)

\* C18, the part that holds: a failure of the search itself is returned, and a
\* filter that parses is applied (the hits are the matching documents, or the
\* engine's error when the field is not filterable).
C18_SearchFailureReturned ==
    \A t \in Threads :
        (Returned(t) /\ th[t].op = "fancy_search"
           /\ th[t].arg.filter # None /\ from_str(th[t].arg.filter[1]).ok) =>
            IF th[t].res[1].ok
            THEN /\ "val" \in StateAt(th[t].ver).main.filterable_fields
                 /\ SeqRange(th[t].res[1].val) = MatchingDocs(StateAt(th[t].ver), "a")
            ELSE th[t].res[1].val \in {"InvalidSearchFilter", "perform_search"}

C18_Witness ==
    \E t \in Threads :
        /\ UnparsableFilter(t)
        /\ th[t].res[1].ok
        /\ "val" \in StateAt(th[t].ver).main.filterable_fields
        /\ SeqRange(th[t].res[1].val) = {Doc1a, Doc2b}
        /\ MatchingDocs(StateAt(th[t].ver), "a") = {Doc1a}

----------------------------------------------------------------------------
(* create_dump while another handle on the same directory writes            *)

InitSnapshot == \E db \in InitialIndexes : InitClosed(db)

NextSnapshot ==
    \E t \in Threads :
        \/ BeginCreateDump(t) \/ BeginAdd(t) \/ BeginSetSettings(t)
        \/ CreateDir(t) \/ Probe(t) \/ Release(t) \/ OpenReal(t)
        \/ ReadTxn(t) \/ ReadSettings(t) \/ ReadAll(t)
        \/ Serialize(t) \/ WriteTxn(t) \/ AddBatch(t) \/ CheckInner(t) \/ Execute(t)
        \/ Build(t) \/ SettingsExecute(t)
        \/ Commit(t)
        \/ CloseWait(t)

SpecSnapshot == InitSnapshot /\ [][NextSnapshot]_vars

\* thread t has returned a dump
Dumped(t) == ReturnedOk(t) /\ th[t].op = "create_dump"

\* the settings half, the documents half of a dump are those of version v
SettingsOfVersion(dump, v) == SameSettings(dump[1], get_settings(StateAt(v)).val)
DocumentsOfVersion(dump, v) == SeqRange(dump[2]) = DocsOf(StateAt(v))

\* C19: the pair create_dump returns is the settings and the documents of one
\* committed state of the index, also when a write commits between the two
\* reads of create_dump.
C19_DumpIsOneState ==
    \A t \in Threads :
        Dumped(t) =>
            \E v \in 1..Len(hist) :
                /\ SettingsOfVersion(th[t].res[1].val, v)
                /\ DocumentsOfVersion(th[t].res[1].val, v)

\* C19, the part that holds: each half of the dump is a snapshot, the settings
\* of one state committed during the call and the documents of that state or of
\* a later one.
C19_DumpHalvesAreSnapshots ==
    \A t \in Threads :
        Dumped(t) =>
            \E v \in th[t].begun..th[t].end : \E w \in v..th[t].end :
                /\ SettingsOfVersion(th[t].res[1].val, v)
                /\ DocumentsOfVersion(th[t].res[1].val, w)

C19_Witness ==
    \E t \in Threads :
        /\ Dumped(t)
        /\ th[t].res[1].val[1].primary_key = None
        /\ SeqRange(th[t].res[1].val[2]) = {Doc1a}
        /\ Len(hist) = 2
        /\ hist[2].op = "add_documents"
        /\ th[t].begun = 1
        /\ th[t].end = 2

----------------------------------------------------------------------------
(* The order of the steps of create_index                                   *)

\* the last open attempt of thread t succeeded
ProbeWon(t) ==
    /\ Len(th[t].probes) >= 1
    /\ th[t].probes[Len(th[t].probes)].result.ok

WinningSize(t) == th[t].probes[Len(th[t].probes)].size

\* C20: create_index opens the real environment only after a probe has
\* succeeded and its handle has been released, and with the map size of that
\* probe; when the directory cannot be created the error is returned with no
\* probe and no open attempted.
C20_OpenAfterReleasedProbe ==
    /\ env.probe # None =>
          \E t \in Threads : /\ th[t].pc = "release"
                             /\ ProbeWon(t)
                             /\ env.probe = Some(WinningSize(t))
                             /\ env.real = None
    /\ env.real # None =>
          \E t \in Threads : /\ ReturnedOk(t)
                             /\ th[t].op = "create_index"
                             /\ ProbeWon(t)
                             /\ env.real = Some(WinningSize(t))
    /\ \A t \in Threads :
          th[t].op = "create_index" =>
              /\ th[t].pc = "open" =>
                    /\ th[t].steps = <<"create_dir_all", "probe", "release">>
                    /\ ProbeWon(t)
                    /\ th[t].loc.map_size = WinningSize(t)
                    /\ env = [probe |-> None, real |-> None]
              /\ ReturnedOk(t) =>
                    /\ th[t].steps = <<"create_dir_all", "probe", "release", "open">>
                    /\ env = [probe |-> None, real |-> Some(WinningSize(t))]
              /\ (Returned(t) /\ Occurs(th[t].steps, "create_dir_all") = 0) =>
                    /\ th[t].res[1] = Err("create_dir_all")
                    /\ th[t].probes = <<>>
                    /\ th[t].steps = <<>>
                    /\ th[t].end = th[t].begun

C20_Witness ==
    \E t, u \in Threads :
        /\ ReturnedOk(t)
        /\ th[t].op = "create_index"
        /\ Len(th[t].probes) = 2
        /\ env.real = Some(MapSize(1))
        /\ ReturnedErr(u)
        /\ th[u].op = "create_index"
        /\ th[u].res[1].val = "create_dir_all"
        /\ th[u].probes = <<>>

----------------------------------------------------------------------------
(* The two transactions of import_dump                                      *)

\* thread t has returned from an import_dump that had opened its environment
Imported(t) == Returned(t) /\ th[t].op = "import_dump" /\ DumpOpened(t)

\* C21: import_dump commits at most two transactions, set_settings and then
\* set_documents, and starts set_documents only once set_settings has
\* committed.  When set_settings fails nothing of the target has changed; when
\* set_documents fails the settings of the dump stay committed and the
\* documents are those the target held before the call.
C21_ImportTwoTransactions ==
    \A t \in Threads :
        /\ (th[t].outer = "import_dump" /\ th[t].op = "set_documents") =>
              /\ Len(hist) >= th[t].begun + 1
              /\ hist[th[t].begun + 1].op = "set_settings"
              /\ hist[th[t].begun + 1].arg = th[t].out.dump[1]
        /\ Imported(t) =>
              LET b == th[t].begun
                  e == th[t].end
              IN  /\ e \in b..(b + 2)
                  /\ th[t].res[1].ok <=> e = b + 2
                  /\ e = b => StateAt(e) = StateAt(b)
                  /\ e >= b + 1 =>
                        /\ hist[b + 1].op = "set_settings"
                        /\ hist[b + 1].arg = th[t].out.dump[1]
                        /\ hist[b + 1].pre = StateAt(b)
                        /\ hist[b + 1].post.documents = StateAt(b).documents
                        /\ hist[b + 1].post.external_ids = StateAt(b).external_ids
                  /\ e = b + 1 =>
                        /\ StateAt(e) = hist[b + 1].post
                        /\ DocsOf(StateAt(e)) = DocsOf(StateAt(b))
                        /\ SameSettings(get_settings(StateAt(e)).val, th[t].out.dump[1])
                  /\ e = b + 2 =>
                        /\ hist[b + 2].op = "set_documents"
                        /\ hist[b + 2].arg = th[t].out.dump[2]
                        /\ hist[b + 2].pre = hist[b + 1].post

C21_Witness ==
    \E t, u \in Threads :
        /\ Imported(t)
        /\ th[t].end = th[t].begun + 1
        /\ th[t].out.dump[1] = PkSettings
        /\ DocsOf(StateAt(th[t].begun)) = {Doc1a, Doc2b}
        /\ StateAt(th[t].begun).main.stop_words = None
        /\ StateAt(th[t].end).main.stop_words = Some({"the"})
        /\ Imported(u)
        /\ th[u].end = th[u].begun
        /\ th[u].out.dump[1] = BogusSettings

----------------------------------------------------------------------------
(* The f32 operators against the values IEEE-754 single precision gives    *)
(* for lines 44-46, retry 0..9                                              *)

F32Check ==
    /\ [k \in 0..9 |-> CurrMaxMapSize(k)] =
          [k \in 0..9 |-> << 2000000000, 1700000000, 1445000064, 1228249984, 1044012544,
                             887410688, 754299136, 641154240, 544981120, 463233984 >>[k + 1]]
    /\ [k \in 0..9 |-> MapSize(k)] =
          [k \in 0..9 |-> << 1999994880, 1699987456, 1444986880, 1228242944, 1044004864,
                             887406592, 754286592, 641138688, 544980992, 463224832 >>[k + 1]]

====
